---- MODULE Spec2Model ----
(***************************************************************************)
(* Template-driven report pipeline of excel-to-ppt-report:                 *)
(*   core/template_manager.py   TemplateManager (load + validation)        *)
(*   core/component_factory.py  ComponentFactory                           *)
(*   core/ppt_generator.py      PPTGenerator, BatchPPTGenerator            *)
(*   components/*.py            the five element variants                  *)
(*                                                                         *)
(* JSON values are encoded as records that carry their shape: a "kind"     *)
(* field says whether the value is a mapping ("dict"), a list ("list") or  *)
(* something else ("other"); a key that may be missing has a "has..." flag *)
(* or the kind "absent".                                                   *)
(***************************************************************************)
EXTENDS Integers, Sequences, FiniteSets, TLC

VARIABLES
    \* --- TemplateManager / PPTGenerator (one generator object) ---
    current_template,   \* TemplateManager.current_template (NoTemplate = None)
    template_path,      \* TemplateManager.template_path    (NoPath = None)
    data,               \* DataMapper.data                  (NoData = None)
    custom_variables,   \* PPTGenerator.custom_variables (set of keys set)
    presentation,       \* PPTGenerator.presentation: NoPresentation or pages
    attempted,          \* elements handed to _render_component by generate(), until the next call
    result,             \* outcome of the last call on the generator
    disk,               \* documents written by Presentation.save: path -> pages
    clock,              \* wall clock in seconds (datetime.now())
    \* --- _validate_template applied to one candidate value ---
    v_template,         \* the value handed to _validate_template
    v_result,           \* NotValidated, or what _validate_template did
    \* --- ComponentFactory.create_component applied to one config ---
    f_config,           \* the config handed to create_component
    f_template,         \* the template context handed to create_component
    f_result,           \* NotCreated, or what create_component did
    \* --- BatchPPTGenerator ---
    jobs,               \* BatchPPTGenerator.jobs
    results,            \* BatchPPTGenerator.results
    summary,            \* value returned by get_summary(), until the next call
    b_disk,             \* documents written by the batch's generators
    \* --- ChartComponent.render ---
    c_size,             \* element size <<width, height>> in tenths of an inch
    c_env,              \* which backend step raises during this render
    c_temp,             \* temporary raster files that exist
    c_raster,           \* pixel size rasterized by _generate_chart, or NoRaster
    c_outcome,          \* Pending, or how render() ended
    c_actual,           \* pixel size of the file savefig writes; NoRaster: as asked
    c_file,             \* pixel size of the file after the verification pass
    \* --- DataMapper.get_data_for_component on one mapper ---
    m_heap,             \* the dataset objects: reference -> DataFrame value
    m_metadata,         \* DataMapper.metadata
    m_config,           \* the component config handed to the call
    m_ret,              \* NotCalled, or what the call returned
    \* --- TextComponent.render of one text element ---
    t_comp,             \* the element: TextComponent.content and .variables
    t_data,             \* the data handed to render
    t_metadata,         \* DataMapper.metadata of the generator's mapper
    t_custom,           \* PPTGenerator.custom_variables
    t_text,             \* NotRendered, or what became of the element
    \* --- TableComponent.render of one table element ---
    tb_source,          \* data_source of the element's config
    tb_data,            \* the data handed to render
    tb_shape,           \* NoShape, or the shape render added to the slide
    \* --- ChartComponent._get_colors of one chart element ---
    k_style,            \* the value of style 'colors'
    k_template,         \* the template the document is generated from
    k_cycle,            \* the plotting backend's default color cycle
    k_colors,           \* NoColors, or the list _get_colors returned
    \* --- one table or chart element given its data ---
    p_data,             \* the dataset the mapper holds
    p_config,           \* the element's config, as far as mapper and element read it
    p_direct,           \* TRUE: render is given the dataset itself, FALSE: what the mapper returns
    p_run,              \* NotRun, or what render was given and the frame it prepared
    \* --- ImageComponent._get_image_path of one image element ---
    i_comp,             \* the element: image_type, image_path, template
    i_template,         \* the template the document is generated from
    i_data,             \* the data value render is called with
    i_files,            \* the files that exist, and whether the assets directory does
    i_path,             \* NotAsked, or the path _get_image_path returned
    \* --- SummaryComponent.render of one summary element (key_metrics) ---
    s_comp,             \* the element: metric_columns, max_items
    s_data,             \* the data value render is called with
    s_insights,         \* NoInsights, or the insight items render arrived at
    \* --- one DataMapper object over a session of calls ---
    d_data,             \* DataMapper.data (NoFrame = None)
    d_metadata,         \* DataMapper.metadata (NoMetadata = {})
    d_result            \* the last call on the mapper and whether it raised

genRest   == <<current_template, template_path, data, custom_variables,
               presentation, attempted, result, disk>>
genVars   == <<current_template, template_path, data, custom_variables,
               presentation, attempted, result, disk, clock>>
valVars   == <<v_template, v_result>>
facVars   == <<f_config, f_template, f_result>>
batchVars == <<jobs, results, summary, b_disk>>
chartVars == <<c_size, c_env, c_temp, c_raster, c_outcome, c_actual, c_file>>
mapperVars == <<m_heap, m_metadata, m_config, m_ret>>
\* the parts exercised one call at a time
textVars  == <<t_comp, t_data, t_metadata, t_custom, t_text>>
tableVars == <<tb_source, tb_data, tb_shape>>
colorVars == <<k_style, k_template, k_cycle, k_colors>>
pipeVars == <<p_data, p_config, p_direct, p_run>>
imageVars == <<i_comp, i_template, i_data, i_files, i_path>>
summaryVars == <<s_comp, s_data, s_insights>>
sessionVars == <<d_data, d_metadata, d_result>>
partVars  == <<colorVars, pipeVars, imageVars, summaryVars, sessionVars>>
unitVars  == <<mapperVars, textVars, tableVars, partVars>>
\* the parts above them
coreVars  == <<genVars, valVars, facVars, batchVars, chartVars>>
vars      == <<coreVars, unitVars>>
\* everything but the variables of one part
otherThanColor == <<coreVars, mapperVars, textVars, tableVars, pipeVars, imageVars, summaryVars, sessionVars>>
otherThanPipe == <<coreVars, mapperVars, textVars, tableVars, colorVars, imageVars, summaryVars, sessionVars>>
otherThanImage == <<coreVars, mapperVars, textVars, tableVars, colorVars, pipeVars, summaryVars, sessionVars>>
otherThanSummary == <<coreVars, mapperVars, textVars, tableVars, colorVars, pipeVars, imageVars, sessionVars>>
otherThanSession == <<coreVars, mapperVars, textVars, tableVars, colorVars, pipeVars, imageVars, summaryVars>>

-----------------------------------------------------------------------------
(* Bounds of the explored input space *)

MaxSlides == 2      \* slides per candidate template
MaxComps  == 2      \* components per candidate slide
MaxJobs   == 3      \* jobs per batch
MaxClock  == 1      \* last clock second explored
MaxRows   == 3      \* rows per sample dataset

Pending == "pending"

-----------------------------------------------------------------------------
(* JSON shapes *)

RECURSIVE SeqsUpTo(_, _)
SeqsUpTo(S, n) ==
    IF n = 0 THEN {<<>>}
    ELSE LET shorter == SeqsUpTo(S, n - 1)
         IN  shorter \cup {Append(s, x) : s \in {t \in shorter : Len(t) = n - 1}, x \in S}

Min(S) == CHOOSE x \in S : \A y \in S : x <= y

\* a component config.  initOk: the constructor body of the element class
\* accepts the config (position/size are mappings of numbers when present,
\* and the checks ChartComponent/ImageComponent run in __init__ pass).
Comp(kind, hasType, type, hasPosition, hasSize) ==
    [kind |-> kind, hasType |-> hasType, type |-> type,
     hasPosition |-> hasPosition, hasSize |-> hasSize, initOk |-> TRUE]

\* layout value of a slide: absent key, a string, or a non-string (null)
LayoutAbsent == [t |-> "absent", v |-> ""]
LayoutStr(s) == [t |-> "str", v |-> s]
LayoutNull   == [t |-> "null", v |-> ""]

Slide(kind, compsKind, comps, layout) ==
    [kind |-> kind, compsKind |-> compsKind, components |-> comps, layout |-> layout]

Template(kind, slidesKind, slides, metaKind, name) ==
    [kind |-> kind, slidesKind |-> slidesKind, slides |-> slides,
     metaKind |-> metaKind, name |-> name]

-----------------------------------------------------------------------------
(* TemplateManager._validate_template and its helpers.  A validation      *)
(* result is Ok(warnings) or Raise(message); warnings counts the printed  *)
(* "missing 'position'/'size' - will use defaults" lines.                 *)

ValidTypes == {"text", "table", "image", "chart", "summary"}

Ok(w)      == [ok |-> TRUE,  error |-> "", warnings |-> w]
Raise(msg) == [ok |-> FALSE, error |-> msg, warnings |-> 0]

\* ValidateComponent, were a missing 'position' or 'size' an error
ValidateComponent_RequireGeometry(component) ==
    IF component.kind # "dict" THEN Raise("component must be a dictionary")
    ELSE IF ~component.hasType THEN Raise("component must include 'type' key")
    ELSE IF component.type \notin ValidTypes THEN Raise("component has invalid type")
    ELSE IF ~component.hasPosition \/ ~component.hasSize THEN Raise("component must include geometry")
    ELSE Ok(0)

ValidateComponent(component) ==
    IF component.kind # "dict" THEN Raise("component must be a dictionary")
    ELSE IF ~component.hasType THEN Raise("component must include 'type' key")
    ELSE IF component.type \notin ValidTypes THEN Raise("component has invalid type")
    ELSE Ok((IF component.hasPosition THEN 0 ELSE 1) + (IF component.hasSize THEN 0 ELSE 1))

RECURSIVE SumWarnings(_, _)
SumWarnings(rs, i) ==
    IF i > Len(rs) THEN 0 ELSE rs[i].warnings + SumWarnings(rs, i + 1)

\* result of validating the items of a list in order: the first raise wins
FirstRaise(rs) ==
    LET bad == {i \in 1..Len(rs) : ~rs[i].ok}
    IN  IF bad = {} THEN Ok(SumWarnings(rs, 1)) ELSE rs[Min(bad)]

ValidateSlide(slide) ==
    IF slide.kind # "dict" THEN Raise("slide must be a dictionary")
    ELSE IF slide.compsKind = "absent" THEN Raise("slide must include 'components' key")
    ELSE IF slide.compsKind # "list" THEN Raise("'components' must be a list")
    ELSE FirstRaise([j \in 1..Len(slide.components) |-> ValidateComponent(slide.components[j])])

ValidateMetadata(template) ==
    IF template.metaKind # "dict" THEN Raise("Metadata must be a dictionary") ELSE Ok(0)

ValidateTemplate(template) ==
    IF template.kind # "dict" THEN Raise("Template must be a dictionary")
    ELSE IF template.slidesKind = "absent" THEN Raise("Template must include 'slides' key")
    ELSE IF template.slidesKind # "list" THEN Raise("'slides' must be a list")
    ELSE IF Len(template.slides) = 0 THEN Raise("Template must have at least one slide")
    ELSE IF template.metaKind # "absent" /\ ~ValidateMetadata(template).ok
         THEN ValidateMetadata(template)
    ELSE FirstRaise([i \in 1..Len(template.slides) |-> ValidateSlide(template.slides[i])])

-----------------------------------------------------------------------------
(* Candidate values handed to _validate_template *)

NotADict == Comp("other", FALSE, "", FALSE, FALSE)

CompSamples ==
    { Comp("dict", TRUE, "text", TRUE, TRUE),
      Comp("dict", TRUE, "chart", FALSE, FALSE),
      Comp("dict", TRUE, "summary", TRUE, FALSE),
      Comp("dict", TRUE, "video", TRUE, TRUE),
      Comp("dict", FALSE, "", TRUE, TRUE),
      NotADict }

\* a component config that passes every check
PlainComp == Comp("dict", TRUE, "text", TRUE, TRUE)

\* component lists of n entries that are plain but for one position
OneOdd(n) ==
    { [j \in 1..n |-> IF j = k THEN c ELSE PlainComp] : k \in 1..n, c \in CompSamples }

SlideOf(cs) == Slide("dict", "list", cs, LayoutStr("title"))

MalformedSlides ==
    { Slide("dict", "absent", <<>>, LayoutStr("title")),
      Slide("dict", "other", <<>>, LayoutStr("title")),
      Slide("other", "absent", <<>>, LayoutAbsent) }

\* every component list of up to MaxComps entries
SlideSamples ==
    { SlideOf(cs) : cs \in SeqsUpTo(CompSamples, MaxComps) } \cup MalformedSlides

\* the slides that templates of several slides are built from: at most one
\* component, or MaxComps components of which one is not plain
MixedSlides ==
    { SlideOf(cs) : cs \in SeqsUpTo(CompSamples, 1) \cup OneOdd(MaxComps) }
    \cup MalformedSlides

MetaKinds == {"absent", "dict", "other"}

TemplateSamples ==
    { Template("dict", "list", <<s>>, mk, "Report") : s \in SlideSamples, mk \in MetaKinds }
    \cup { Template("dict", "list", ss, mk, "Report") :
              ss \in SeqsUpTo(MixedSlides, MaxSlides), mk \in MetaKinds }
    \cup { Template("dict", "absent", <<>>, "dict", "Report"),
           Template("dict", "other", <<>>, "dict", "Report"),
           Template("other", "absent", <<>>, "absent", "") }

\* v_result before _validate_template has been called
NotValidated == [ok |-> FALSE, error |-> "<not called>", warnings |-> 0]

ValInit ==
    /\ v_template \in TemplateSamples
    /\ v_result = NotValidated

\* one call _validate_template(v_template)
Validate ==
    /\ v_result = NotValidated
    /\ v_result' = ValidateTemplate(v_template)
    /\ UNCHANGED <<v_template, genVars, facVars, batchVars, chartVars, unitVars>>

-----------------------------------------------------------------------------
(* ComponentFactory.create_component *)

NoTemplate == Template("None", "absent", <<>>, "absent", "")
NoTag      == "<no tag>"

\* ComponentFactory.COMPONENT_TYPES: type tag -> element class
COMPONENT_TYPES ==
    [t \in ValidTypes |->
        CASE t = "text"    -> "TextComponent"
          [] t = "table"   -> "TableComponent"
          [] t = "image"   -> "ImageComponent"
          [] t = "chart"   -> "ChartComponent"
          [] t = "summary" -> "SummaryComponent"]

\* parameters (besides self) that the __init__ of each element class declares
InitParams(cls) == {"config"}

\* Truthy, were the test "'type' in config"
Truthy_KeyPresent(hasType, type) == hasType

\* Python truthiness of the value of config.get('type'): None and '' are falsy
Truthy(hasType, type) == hasType /\ type # ""

FOk(cls, config, template) ==
    [ok |-> TRUE, exc |-> "", message |-> "", names |-> NoTag,
     instance |-> [cls |-> cls, config |-> config, template |-> template]]
FRaise(exc, message, names) ==
    [ok |-> FALSE, exc |-> exc, message |-> message, names |-> names,
     instance |-> [cls |-> "", config |-> NotADict, template |-> NoTemplate]]

\* component_class(config, template=template)
Construct(cls, config, template) ==
    IF "template" \notin InitParams(cls)
    THEN FRaise("TypeError", "__init__() got an unexpected keyword argument 'template'", NoTag)
    ELSE IF ~config.initOk
    THEN FRaise("ValueError", "invalid component configuration", NoTag)
    ELSE FOk(cls, config, template)

CreateComponent(config, template) ==
    IF config.kind # "dict"
    THEN FRaise("ValueError", "Configuration must be a dictionary", NoTag)
    ELSE IF ~Truthy(config.hasType, config.type)
    THEN FRaise("ValueError", "Component configuration must include 'type' key", NoTag)
    ELSE IF config.type \notin DOMAIN COMPONENT_TYPES
    THEN FRaise("ValueError", "Invalid component type", config.type)
    ELSE LET made == Construct(COMPONENT_TYPES[config.type], config, template)
         IN  IF made.ok THEN made
             ELSE FRaise("Exception", "Failed to create component", config.type)

TypeTags == ValidTypes \cup {"video", ""}

FConfigSamples ==
    { [Comp("dict", TRUE, t, p, z) EXCEPT !.initOk = w] :
          t \in TypeTags, p \in BOOLEAN, z \in BOOLEAN, w \in BOOLEAN }
    \cup { [Comp("dict", FALSE, "", p, z) EXCEPT !.initOk = w] :
          p \in BOOLEAN, z \in BOOLEAN, w \in BOOLEAN }
    \cup { NotADict }

\* a template that passes validation, used as template context
BrandTemplate ==
    Template("dict", "list",
             <<Slide("dict", "list", <<Comp("dict", TRUE, "text", TRUE, TRUE)>>, LayoutStr("title"))>>,
             "dict", "Brand Report")

\* f_result before create_component has been called
NotCreated == FRaise("", "<not called>", NoTag)

FacInit ==
    /\ f_config \in FConfigSamples
    /\ f_template \in {NoTemplate, BrandTemplate}
    /\ f_result = NotCreated

\* one call ComponentFactory.create_component(f_config, template=f_template)
CreateComponentCall ==
    /\ f_result = NotCreated
    /\ f_result' = CreateComponent(f_config, f_template)
    /\ UNCHANGED <<f_config, f_template, genVars, valVars, batchVars, chartVars, unitVars>>

-----------------------------------------------------------------------------
(* The files the generator can be pointed at *)

TextOnly  == Comp("dict", TRUE, "text", TRUE, TRUE)
ChartNoGeometry == Comp("dict", TRUE, "chart", FALSE, FALSE)
TableComp == Comp("dict", TRUE, "table", TRUE, TRUE)
ImageComp == Comp("dict", TRUE, "image", TRUE, FALSE)
SummaryComp == Comp("dict", TRUE, "summary", TRUE, TRUE)

\* one slide, two elements
OneSlide ==
    Template("dict", "list",
             <<Slide("dict", "list", <<TextOnly, ChartNoGeometry>>, LayoutStr("title"))>>,
             "dict", "Brand Report")
\* two slides: no layout key, and a layout written in capitals
TwoSlides ==
    Template("dict", "list",
             <<Slide("dict", "list", <<TableComp>>, LayoutAbsent),
               Slide("dict", "list", <<ImageComp, SummaryComp>>, LayoutStr("BLANK"))>>,
             "absent", "")
\* two slides, the first one with "layout": null
NullLayout ==
    Template("dict", "list",
             <<Slide("dict", "list", <<TextOnly>>, LayoutNull),
               Slide("dict", "list", <<TextOnly>>, LayoutStr("content"))>>,
             "dict", "Report")
\* "slides": []
NoSlides  == Template("dict", "list", <<>>, "dict", "Report")
\* a component of an unknown type
BadType   ==
    Template("dict", "list",
             <<Slide("dict", "list", <<Comp("dict", TRUE, "video", TRUE, TRUE)>>, LayoutStr("title"))>>,
             "dict", "Report")

\* a file: does it exist, does json.load (or the data reader) accept it, and
\* the value read from it
File(exists, readable, value) == [exists |-> exists, readable |-> readable, value |-> value]

TemplatePaths ==
    {"missing.json", "broken.json", "empty.json", "badtype.json",
     "one.json", "two.json", "nulllayout.json"}

TemplateFile(path) ==
    CASE path = "missing.json"    -> File(FALSE, FALSE, NoTemplate)
      [] path = "broken.json"     -> File(TRUE, FALSE, NoTemplate)
      [] path = "empty.json"      -> File(TRUE, TRUE, NoSlides)
      [] path = "badtype.json"    -> File(TRUE, TRUE, BadType)
      [] path = "one.json"        -> File(TRUE, TRUE, OneSlide)
      [] path = "two.json"        -> File(TRUE, TRUE, TwoSlides)
      [] path = "nulllayout.json" -> File(TRUE, TRUE, NullLayout)

DataPaths == {"missing.xlsx", "notes.txt", "sales.xlsx"}
NoData    == [kind |-> "None", file |-> ""]
DataFile(path) ==
    CASE path = "missing.xlsx" -> File(FALSE, FALSE, NoData)
      [] path = "notes.txt"    -> File(TRUE, FALSE, NoData)
      [] path = "sales.xlsx"   -> File(TRUE, TRUE, [kind |-> "frame", file |-> path])

NoPath == "<None>"
\* PPTGenerator.presentation: None, or a presentation with its slide pages
NoPresentation == [kind |-> "None", pages |-> <<>>]
Presentation(pages) == [kind |-> "Presentation", pages |-> pages]

-----------------------------------------------------------------------------
(* TemplateManager.load_template and DataMapper.load_data as functions of  *)
(* the object's fields: they return the new fields and what was raised.    *)

\* self._validate_template(template) for the value read from each file
Validated == [path \in TemplatePaths |-> ValidateTemplate(TemplateFile(path).value)]

\* LoadTemplateOp, were the parsed value installed before it is validated
LoadTemplateOp_InstallBeforeValidate(cur, cur_path, path) ==
    LET file == TemplateFile(path)
        keep(exc) == [current_template |-> cur, template_path |-> cur_path,
                      raised |-> TRUE, exc |-> exc]
    IN  IF ~file.exists THEN keep("FileNotFoundError")
        ELSE IF ~file.readable THEN keep("ValueError")
        ELSE [current_template |-> file.value, template_path |-> path,
              raised |-> ~Validated[path].ok,
              exc |-> IF Validated[path].ok THEN "" ELSE "ValueError"]

LoadTemplateOp(cur, cur_path, path) ==
    LET file == TemplateFile(path)
        keep(exc) == [current_template |-> cur, template_path |-> cur_path,
                      raised |-> TRUE, exc |-> exc]
    IN  IF ~file.exists THEN keep("FileNotFoundError")
        ELSE IF ~file.readable THEN keep("ValueError")
        ELSE IF ~Validated[path].ok THEN keep("ValueError")
        ELSE [current_template |-> file.value, template_path |-> path,
              raised |-> FALSE, exc |-> ""]

LoadDataOp(cur, path) ==
    LET file == DataFile(path)
    IN  IF ~file.exists THEN [data |-> cur, raised |-> TRUE, exc |-> "FileNotFoundError"]
        ELSE IF ~file.readable THEN [data |-> cur, raised |-> TRUE, exc |-> "Exception"]
        ELSE [data |-> file.value, raised |-> FALSE, exc |-> ""]

-----------------------------------------------------------------------------
(* PPTGenerator.generate *)

\* str.lower() on the layout names that occur in the template files
Lower(name) ==
    CASE name = "BLANK" -> "blank"
      [] name = "Title" -> "title"
      [] OTHER -> name

LayoutIndex(layout_name) ==
    LET key == Lower(layout_name)
    IN  CASE key = "title"         -> 0
          [] key = "title_content" -> 1
          [] key = "section"       -> 2
          [] key = "two_content"   -> 3
          [] key = "comparison"    -> 4
          [] key = "blank"         -> 5
          [] key = "content"       -> 6
          [] OTHER                 -> 5

\* "Create component": create_component is called with the config alone, so
\* its template parameter takes its default, None
CreateForRender(component_config) == CreateComponent(component_config, NoTemplate)

\* _render_component: what became of one element.  Every exception of the
\* three steps is caught there, so the outcome is all the caller can see.
\* backendRaises: element.render raises in this run.
RenderComponent(component_config, backendRaises) ==
    LET created == CreateForRender(component_config)
    IN  IF ~created.ok THEN "create failed"
        ELSE IF backendRaises THEN "render failed"
        ELSE "rendered"

\* _generate_slide: the page added for one slide config, or the exception
\* that leaves _generate_slide before the page is added
GenerateSlide(slide_config, backendRaises) ==
    IF slide_config.layout.t = "null"
    THEN [raised |-> TRUE, exc |-> "AttributeError", page |-> <<>>]
    ELSE LET layout_name == IF slide_config.layout.t = "absent" THEN "blank"
                            ELSE slide_config.layout.v
             comps == slide_config.components
         IN  [raised |-> FALSE, exc |-> "",
              page |-> [layout |-> LayoutIndex(layout_name),
                        shapes |-> [j \in 1..Len(comps) |->
                                      RenderComponent(comps[j], backendRaises)]]]

\* the loop "for slide_config in slides" from slide i on
RECURSIVE GenerateSlides(_, _, _, _, _)
GenerateSlides(slides, i, pages, tried, backendRaises) ==
    IF i > Len(slides)
    THEN [raised |-> FALSE, exc |-> "", pages |-> pages, attempted |-> tried]
    ELSE LET one == GenerateSlide(slides[i], backendRaises)
         IN  IF one.raised
             THEN [raised |-> TRUE, exc |-> one.exc, pages |-> pages, attempted |-> tried]
             ELSE GenerateSlides(slides, i + 1, Append(pages, one.page),
                                 tried \o [j \in 1..Len(slides[i].components) |-> <<i, j>>],
                                 backendRaises)

\* str.replace(' ', '_').replace('/', '_') on the template names that occur
CleanName(name) ==
    CASE name = "Brand Report" -> "Brand_Report"
      [] OTHER -> name

OutputDir == "output"

\* an output path: directory part (os.path.dirname), file name, and the
\* timestamp that an auto-generated name carries (-1 for a given name)
Path(dir, file, stamp) == [dir |-> dir, file |-> file, stamp |-> stamp]

GenerateOutputPath(template, now) ==
    LET template_name == IF template.metaKind = "dict" THEN template.name ELSE "Report"
    IN  Path(OutputDir, CleanName(template_name), now)

\* output_path = None
NoOutputPath == Path("", "", -1)

\* the output_path arguments tried: None, and a path inside a directory
OutputPaths == {NoOutputPath, Path("output", "report.pptx", -1)}

\* generate(output_path) from "Determine output path" on, given how the
\* slide loop ended (walk) and the path the document goes to
SaveOp(walk, path) ==
    LET built == [raised |-> TRUE, exc |-> walk.exc,
                  presentation |-> Presentation(walk.pages),
                  attempted |-> walk.attempted, saved |-> FALSE, path |-> NoOutputPath]
    IN  IF walk.raised THEN built
        ELSE IF path.dir = "" THEN [built EXCEPT !.exc = "FileNotFoundError"]
        ELSE [built EXCEPT !.raised = FALSE, !.saved = TRUE, !.path = path]

\* GenerateOp without the "Check if template is loaded" test
GenerateOp_NoTemplateTest(template, old_presentation, output_path, now, backendRaises) ==
    SaveOp(GenerateSlides(template.slides, 1, <<>>, <<>>, backendRaises),
           IF output_path = NoOutputPath THEN GenerateOutputPath(template, now)
           ELSE output_path)

\* generate(output_path): the new presentation field, the pages written to
\* which path, and what was returned or raised
GenerateOp(template, old_presentation, output_path, now, backendRaises) ==
    IF template = NoTemplate
    THEN [raised |-> TRUE, exc |-> "ValueError", presentation |-> old_presentation,
          attempted |-> <<>>, saved |-> FALSE, path |-> NoOutputPath]
    ELSE SaveOp(GenerateSlides(template.slides, 1, <<>>, <<>>, backendRaises),
                IF output_path = NoOutputPath THEN GenerateOutputPath(template, now)
                ELSE output_path)

Save(d, path, pages) ==
    [p \in DOMAIN d \cup {path} |-> IF p = path THEN pages ELSE d[p]]

-----------------------------------------------------------------------------
(* The generator object: its operations as actions *)

Outcome(op, raised, exc, path) ==
    [op |-> op, raised |-> raised, exc |-> exc, path |-> path]

NoVariables == [k \in {} |-> ""]
VariableInputs == {[k \in {"company"} |-> "BSH"], [k \in {"company", "month"} |-> "Nov"]}

\* dict.update
Update(d, e) == [k \in DOMAIN d \cup DOMAIN e |-> IF k \in DOMAIN e THEN e[k] ELSE d[k]]

GenInit ==
    /\ current_template = NoTemplate
    /\ template_path = NoPath
    /\ data = NoData
    /\ custom_variables = NoVariables
    /\ presentation = NoPresentation
    /\ attempted = <<>>
    /\ result = Outcome("init", FALSE, "", NoOutputPath)
    /\ disk = [p \in {} |-> <<>>]
    /\ clock = 0

load_template(path) ==
    LET r == LoadTemplateOp(current_template, template_path, path)
    IN  /\ current_template' = r.current_template
        /\ template_path' = r.template_path
        /\ result' = Outcome("load_template", r.raised, r.exc, NoOutputPath)
        /\ attempted' = <<>>
        /\ UNCHANGED <<data, custom_variables, presentation, disk, clock>>
        /\ UNCHANGED <<valVars, facVars, batchVars, chartVars, unitVars>>

load_data(path) ==
    LET r == LoadDataOp(data, path)
    IN  /\ data' = r.data
        /\ result' = Outcome("load_data", r.raised, r.exc, NoOutputPath)
        /\ attempted' = <<>>
        /\ UNCHANGED <<current_template, template_path, custom_variables,
                       presentation, disk, clock>>
        /\ UNCHANGED <<valVars, facVars, batchVars, chartVars, unitVars>>

set_variables(variables) ==
    /\ custom_variables' = Update(custom_variables, variables)
    /\ result' = Outcome("set_variables", FALSE, "", NoOutputPath)
    /\ attempted' = <<>>
    /\ UNCHANGED <<current_template, template_path, data, presentation,
                   disk, clock>>
    /\ UNCHANGED <<valVars, facVars, batchVars, chartVars, unitVars>>

generate(output_path, backendRaises) ==
    LET r == GenerateOp(current_template, presentation, output_path, clock, backendRaises)
    IN  /\ presentation' = r.presentation
        /\ attempted' = r.attempted
        /\ disk' = IF r.saved THEN Save(disk, r.path, r.presentation.pages) ELSE disk
        /\ result' = Outcome("generate", r.raised, r.exc, r.path)
        /\ UNCHANGED <<current_template, template_path, data, custom_variables, clock>>
        /\ UNCHANGED <<valVars, facVars, batchVars, chartVars, unitVars>>

reset ==
    /\ presentation' = NoPresentation
    /\ custom_variables' = NoVariables
    /\ data' = NoData
    /\ result' = Outcome("reset", FALSE, "", NoOutputPath)
    /\ attempted' = <<>>
    /\ UNCHANGED <<current_template, template_path, disk, clock>>
    /\ UNCHANGED <<valVars, facVars, batchVars, chartVars, unitVars>>

\* time passes
Tick ==
    /\ clock < MaxClock
    /\ clock' = clock + 1
    /\ UNCHANGED <<current_template, template_path, data, custom_variables,
                   presentation, attempted, result, disk>>
    /\ UNCHANGED <<valVars, facVars, batchVars, chartVars, unitVars>>

-----------------------------------------------------------------------------
(* BatchPPTGenerator *)

Job(template, data_file) ==
    [template |-> template, data |-> data_file, output |-> NoOutputPath,
     variables |-> NoVariables]

JobSamples ==
    { Job("one.json", "sales.xlsx"), Job("missing.json", "sales.xlsx"),
      Job("one.json", "missing.xlsx"), Job("nulllayout.json", "sales.xlsx") }

\* what generate_from_config returns or raises, given what its calls of
\* load_template (lt), load_data (ld) and generate (g) did
JobOutcome(lt, ld, g) ==
    LET failed(exc) == [raised |-> TRUE, exc |-> exc, saved |-> FALSE,
                        path |-> NoOutputPath, pages |-> <<>>]
    IN  IF lt.raised THEN failed(lt.exc)
        ELSE IF ld.raised THEN failed(ld.exc)
        ELSE IF g.raised THEN failed(g.exc)
        ELSE [raised |-> FALSE, exc |-> "", saved |-> TRUE,
              path |-> g.path, pages |-> g.presentation.pages]

\* generate() on the generator that load_template left as lt
GenerateLoaded(lt, job, now) ==
    GenerateOp(lt.current_template, NoPresentation, job.output, now, FALSE)

\* PPTGenerator(output_dir).generate_from_config(...) on a fresh generator
GenerateFromConfig(job, now) ==
    JobOutcome(LoadTemplateOp(NoTemplate, NoPath, job.template),
               LoadDataOp(NoData, job.data),
               GenerateLoaded(LoadTemplateOp(NoTemplate, NoPath, job.template), job, now))

\* generate_from_config for every sample job at every clock reading
JobRuns == [job \in JobSamples, now \in 0..MaxClock |-> GenerateFromConfig(job, now)]

\* the entry that generate_all appends for the job at position idx (from 0)
JobResult(idx, job, run) ==
    [job_index |-> idx,
     status |-> IF run.raised THEN "failed" ELSE "success",
     error |-> run.exc,
     output_path |-> run.path,
     template |-> job.template, data |-> job.data]

\* the body of the loop for the job at position i (from 1): st holds the
\* results and the documents so far, run what generate_from_config did
RunJob(js, i, st, run) ==
    [results |-> Append(st.results, JobResult(i - 1, js[i], run)),
     disk |-> IF run.saved THEN Save(st.disk, run.path, run.pages) ELSE st.disk]

\* RunJobs, were the loop body not wrapped in try/except: the first job
\* that raises ends the loop
RECURSIVE RunJobs_StopAtFailure(_, _, _, _)
RunJobs_StopAtFailure(js, stamps, i, st) ==
    IF i > Len(js) THEN st
    ELSE IF JobRuns[js[i], stamps[i]].raised
    THEN RunJob(js, i, st, JobRuns[js[i], stamps[i]])
    ELSE RunJobs_StopAtFailure(js, stamps, i + 1,
                               RunJob(js, i, st, JobRuns[js[i], stamps[i]]))

\* the loop of generate_all from job i on; stamps[i] is datetime.now() while
\* job i runs
RECURSIVE RunJobs(_, _, _, _)
RunJobs(js, stamps, i, st) ==
    IF i > Len(js) THEN st
    ELSE RunJobs(js, stamps, i + 1, RunJob(js, i, st, JobRuns[js[i], stamps[i]]))

Count(rs, status) == Cardinality({i \in 1..Len(rs) : rs[i].status = status})

\* f"{x:.1f}" of x = successful / total * 100, in tenths of a percent
OneDecimalPercent(successful, total) ==
    LET q == (successful * 1000) \div total
        r == (successful * 1000) % total
    IN  IF 2 * r > total \/ (2 * r = total /\ q % 2 = 1) THEN q + 1 ELSE q

NoSummary == [status |-> "never asked", total_jobs |-> 0, successful |-> 0,
              failed |-> 0, success_rate |-> 0, results |-> <<>>]

GetSummary(js, rs) ==
    IF rs = <<>>
    THEN [NoSummary EXCEPT !.status = "No jobs completed"]
    ELSE [status |-> "summary",
          total_jobs |-> Len(js),
          successful |-> Count(rs, "success"),
          failed |-> Count(rs, "failed"),
          success_rate |-> OneDecimalPercent(Count(rs, "success"), Len(js)),
          results |-> rs]

BatchInit ==
    /\ jobs = <<>>
    /\ results = <<>>
    /\ summary = NoSummary
    /\ b_disk = [p \in {} |-> <<>>]

add_job(job) ==
    /\ Len(jobs) < MaxJobs
    /\ jobs' = Append(jobs, job)
    /\ summary' = NoSummary
    /\ UNCHANGED <<results, b_disk, clock>>
    /\ UNCHANGED <<genRest, valVars, facVars, chartVars, unitVars>>

\* the clock readings of one generate_all run: they never go back
Stamps(n, from) ==
    {st \in [1..n -> from..MaxClock] : \A i \in 1..n, j \in 1..n : i <= j => st[i] <= st[j]}

generate_all(stamps) ==
    LET run == RunJobs(jobs, stamps, 1, [results |-> <<>>, disk |-> b_disk])
    IN  /\ results' = run.results
        /\ b_disk' = run.disk
        /\ clock' = IF Len(jobs) = 0 THEN clock ELSE stamps[Len(jobs)]
        /\ summary' = NoSummary
        /\ UNCHANGED jobs
        /\ UNCHANGED <<genRest, valVars, facVars, chartVars, unitVars>>

get_summary ==
    /\ summary' = GetSummary(jobs, results)
    /\ UNCHANGED <<jobs, results, b_disk, clock>>
    /\ UNCHANGED <<genRest, valVars, facVars, chartVars, unitVars>>

-----------------------------------------------------------------------------
(* Datasets.  A pandas DataFrame is its column names in order and its rows *)
(* in order, each row a tuple aligned with the columns.  Cells are         *)
(* integers; NaN stands for a missing value.                               *)

NaN == -1

Smaller(a, b) == IF a <= b THEN a ELSE b
Larger(a, b)  == IF a >= b THEN a ELSE b

NoFrame == [kind |-> "None", columns |-> <<>>, rows |-> <<>>]
Frame(columns, rows) == [kind |-> "frame", columns |-> columns, rows |-> rows]

\* col in df.columns
HasColumn(df, col) == \E i \in 1..Len(df.columns) : df.columns[i] = col
ColIndex(df, col) == CHOOSE i \in 1..Len(df.columns) : df.columns[i] = col

\* df.empty
Empty(df) == Len(df.rows) = 0 \/ Len(df.columns) = 0

\* df.dropna(subset=[col])
DropNa(df, col) ==
    [df EXCEPT !.rows = SelectSeq(df.rows, LAMBDA r : r[ColIndex(df, col)] # NaN)]

\* row a comes strictly before row b when sorting on cell k; missing values
\* go last in either direction (na_position = 'last')
Precedes(a, b, k, ascending) ==
    IF a[k] = NaN THEN FALSE
    ELSE IF b[k] = NaN THEN TRUE
    ELSE IF ascending THEN a[k] < b[k] ELSE a[k] > b[k]

\* r put into a sorted list behind the rows it does not strictly precede
InsertRow(sorted, r, k, ascending) ==
    LET later == {i \in 1..Len(sorted) : Precedes(r, sorted[i], k, ascending)}
        pos == IF later = {} THEN Len(sorted) + 1 ELSE Min(later)
    IN  SubSeq(sorted, 1, pos - 1) \o <<r>> \o SubSeq(sorted, pos, Len(sorted))

\* the rows in the order of df.sort_values(by=..., ascending=...): for the
\* short frames handled here the sort keeps equal keys in their old order
RECURSIVE SortRows(_, _, _)
SortRows(rows, k, ascending) ==
    IF rows = <<>> THEN <<>>
    ELSE InsertRow(SortRows(SubSeq(rows, 1, Len(rows) - 1), k, ascending),
                   rows[Len(rows)], k, ascending)

\* df.sort_values(by=col, ascending=ascending)
SortValues(df, col, ascending) ==
    [df EXCEPT !.rows = SortRows(df.rows, ColIndex(df, col), ascending)]

\* df.head(n)
HeadOf(df, n) == [df EXCEPT !.rows = SubSeq(df.rows, 1, Smaller(n, Len(df.rows)))]

-----------------------------------------------------------------------------
(* DataMapper.get_data_for_component.  The mapper holds its dataset by     *)
(* reference: m_heap maps the references in use to DataFrame values, the   *)
(* held dataset is the object at HeldRef and a DataFrame made by a call is *)
(* the object at FreshRef.                                                 *)

NoRef    == 0
HeldRef  == 1
FreshRef == 2

NoMapping == [c \in {} |-> ""]

\* a data_source mapping; <<>>, NoMapping, "" and 0 stand for a missing key,
\* ascending is "absent", "true" or "false"
Source(columns, column_mapping, sort_by, ascending, top_n) ==
    [columns |-> columns, column_mapping |-> column_mapping, sort_by |-> sort_by,
     ascending |-> ascending, top_n |-> top_n]

NoSource == Source(<<>>, NoMapping, "", "absent", 0)

\* the keys of a component config that the mapper reads
MapperConfig(hasType, type, source) ==
    [hasType |-> hasType, type |-> type, source |-> source]

\* [col for col in columns if col in df.columns]
AvailableColumns(df, columns) == SelectSeq(columns, LAMBDA col : HasColumn(df, col))

\* df[cols]
Project(df, cols) ==
    [df EXCEPT !.columns = cols,
               !.rows = [i \in 1..Len(df.rows) |->
                           [j \in 1..Len(cols) |-> df.rows[i][ColIndex(df, cols[j])]]]]

\* "Filter columns" without the test that a configured column exists
FilterColumns_AlwaysProject(df, src) ==
    IF Len(src.columns) > 0
    THEN Project(df, AvailableColumns(df, src.columns))
    ELSE df

\* "Filter columns"
FilterColumns(df, src) ==
    IF Len(src.columns) > 0 /\ Len(AvailableColumns(df, src.columns)) > 0
    THEN Project(df, AvailableColumns(df, src.columns))
    ELSE df

\* df.rename(columns=mapping), when the mapping is not empty
Rename(df, mapping) ==
    [df EXCEPT !.columns = [j \in 1..Len(df.columns) |->
                              IF df.columns[j] \in DOMAIN mapping
                              THEN mapping[df.columns[j]] ELSE df.columns[j]]]

\* "Sort data": ascending defaults to False
SortSource(df, src) ==
    IF src.sort_by # "" /\ HasColumn(df, src.sort_by)
    THEN SortValues(df, src.sort_by, src.ascending = "true")
    ELSE df

\* "Top N filtering"
CutSource(df, src) == IF src.top_n > 0 THEN HeadOf(df, src.top_n) ELSE df

\* _get_tabular_data: the DataFrame it builds from the held one
GetTabularData(held, src) ==
    IF held.kind = "None" \/ Empty(held)
    THEN Frame(<<>>, <<>>)
    ELSE CutSource(SortSource(Rename(FilterColumns(held, src), src.column_mapping), src), src)

\* what a call returned: the variable dictionary ("variables"), a dataset
\* ("dataset", with the reference of the object), the data_source mapping
\* ("source") or None; touched: the caller has changed the returned object
Returned(kind, ref) == [kind |-> kind, ref |-> ref, touched |-> FALSE]
NotCalled == Returned("<not called>", NoRef)

\* get_data_for_component: the objects after the call and the value returned
GetDataForComponent(heap, config) ==
    IF config.hasType /\ config.type = "text"
    THEN [heap |-> heap, ret |-> Returned("variables", NoRef)]
    ELSE IF config.hasType /\ config.type \in {"table", "chart", "summary"}
    THEN [heap |-> [heap EXCEPT ![FreshRef] = GetTabularData(heap[HeldRef], config.source)],
          ret |-> Returned("dataset", FreshRef)]
    ELSE IF config.hasType /\ config.type = "image"
    THEN [heap |-> heap, ret |-> Returned("source", NoRef)]
    ELSE [heap |-> heap,
          ret |-> IF heap[HeldRef].kind = "None" THEN Returned("None", NoRef)
                  ELSE Returned("dataset", HeldRef)]

\* _extract_metadata, as far as it describes the dataset
Metadata(df) ==
    [row_count |-> Len(df.rows), column_count |-> Len(df.columns), columns |-> df.columns]

\* the datasets a mapper is loaded with, and the configs it is asked about
RowSamples == {<<1, 10>>, <<2, 30>>, <<3, 30>>, <<4, NaN>>}

DatasetSamples ==
    {NoFrame} \cup {Frame(<<"Company", "Total">>, rows) : rows \in SeqsUpTo(RowSamples, MaxRows)}

SourceSamples ==
    { Source(columns, column_mapping, sort_by, ascending, top_n) :
        columns \in {<<>>, <<"Company", "Total">>, <<"Total", "Company">>,
                     <<"Company">>, <<"Total", "Margin">>, <<"Margin">>},
        column_mapping \in {NoMapping, [c \in {"Total"} |-> "Sum"]},
        sort_by \in {"", "Total"},
        ascending \in {"absent", "true", "false"},
        top_n \in {0, 1, 2} }

MapperConfigSamples ==
    { MapperConfig(TRUE, type, source) : type \in {"table", "summary"}, source \in SourceSamples }
    \cup { MapperConfig(TRUE, "chart", source) :
              source \in {src \in SourceSamples : src.column_mapping = NoMapping} }
    \cup { MapperConfig(TRUE, type, NoSource) : type \in {"text", "image", "video"} }
    \cup { MapperConfig(FALSE, "", NoSource) }

MapperInit ==
    /\ \E df \in DatasetSamples :
          /\ m_heap = [ref \in {HeldRef, FreshRef} |-> IF ref = HeldRef THEN df ELSE NoFrame]
          /\ m_metadata = Metadata(df)
    /\ m_config \in MapperConfigSamples
    /\ m_ret = NotCalled

\* one call get_data_for_component(m_config, variables)
get_data_for_component ==
    /\ m_ret = NotCalled
    /\ m_heap' = GetDataForComponent(m_heap, m_config).heap
    /\ m_ret' = GetDataForComponent(m_heap, m_config).ret
    /\ UNCHANGED <<m_metadata, m_config, coreVars, textVars, tableVars, partVars>>

\* the caller changes the dataset it was handed, in place: it drops the rows
change_returned ==
    /\ m_ret.kind = "dataset" /\ ~m_ret.touched
    /\ m_heap' = [m_heap EXCEPT ![m_ret.ref].rows = <<>>]
    /\ m_ret' = [m_ret EXCEPT !.touched = TRUE]
    /\ UNCHANGED <<m_metadata, m_config, coreVars, textVars, tableVars, partVars>>

-----------------------------------------------------------------------------
(* TextComponent.render.  A string is the sequence of its characters, a    *)
(* dictionary the sequence of its items in insertion order (the order a    *)
(* Python dict is iterated in); a key is one symbol of the string.         *)

StrValue(s) == [kind |-> "str", s |-> s, n |-> 0]
IntValue(n) == [kind |-> "int", s |-> <<>>, n |-> n]

Digit == <<"0", "1", "2", "3", "4", "5", "6", "7", "8", "9">>

RECURSIVE Decimal(_)
Decimal(n) ==
    IF n < 10 THEN <<Digit[n + 1]>> ELSE Decimal(n \div 10) \o <<Digit[(n % 10) + 1]>>

\* str(value)
Str(value) == IF value.kind = "int" THEN Decimal(value.n) ELSE value.s

Item(key, value) == [key |-> key, value |-> value]
ItemKeys(d) == {d[i].key : i \in 1..Len(d)}
ValueOf(d, key) == d[CHOOSE i \in 1..Len(d) : d[i].key = key].value

\* d[key] = value: a key the dictionary has keeps its place
PutItem(d, item) ==
    IF item.key \in ItemKeys(d)
    THEN [i \in 1..Len(d) |-> IF d[i].key = item.key THEN item ELSE d[i]]
    ELSE Append(d, item)

\* d.update(e)
RECURSIVE UpdateItems(_, _)
UpdateItems(d, e) == IF e = <<>> THEN d ELSE UpdateItems(PutItem(d, e[1]), Tail(e))

\* f"{{{key}}}"
Placeholder(key) == <<"{", key, "}">>

\* pat occurs in content at position i
StartsAt(content, pat, i) ==
    /\ i + Len(pat) - 1 <= Len(content)
    /\ \A j \in 1..Len(pat) : content[i + j - 1] = pat[j]

\* str.replace: the occurrences of pat found from left to right, not overlapping
RECURSIVE ReplaceFrom(_, _, _, _)
ReplaceFrom(content, pat, new, i) ==
    IF i > Len(content) THEN <<>>
    ELSE IF StartsAt(content, pat, i)
    THEN new \o ReplaceFrom(content, pat, new, i + Len(pat))
    ELSE <<content[i]>> \o ReplaceFrom(content, pat, new, i + 1)

Replace(content, pat, new) == ReplaceFrom(content, pat, new, 1)

\* the loop over all_vars.items(): one replace per item, each on the result
\* of the one before
RECURSIVE SubstituteEach(_, _)
SubstituteEach(content, items) ==
    IF items = <<>> THEN content
    ELSE SubstituteEach(Replace(content, Placeholder(items[1].key), Str(items[1].value)),
                        Tail(items))

NoDict == [kind |-> "None", items |-> <<>>]
DictData(items) == [kind |-> "dict", items |-> items]

TextComp(content, variables) == [content |-> content, variables |-> variables]

\* all_vars: the element's variables, updated with a non-empty data dict
AllVars(comp, input) ==
    IF input.kind = "dict" /\ Len(input.items) > 0
    THEN UpdateItems(comp.variables, input.items)
    ELSE comp.variables

\* _substitute_variables
SubstituteVariables(comp, input) == SubstituteEach(comp.content, AllVars(comp, input))

\* what became of the element: by is "render" after a direct render call,
\* "generate" after _render_component; done: a text box holds text
NotRendered == [done |-> FALSE, text |-> <<>>, by |-> ""]
Rendered(text, by) == [done |-> TRUE, text |-> text, by |-> by]
NotCreatedText == [done |-> FALSE, text |-> <<>>, by |-> "generate"]

\* the date and time entries _get_text_data starts from
Defaults ==
    << Item("date", StrValue(<<"2026-11-05">>)), Item("month", StrValue(<<"November">>)),
       Item("year", StrValue(<<"2026">>)), Item("day", StrValue(<<"05">>)) >>

\* _get_text_data: the defaults, updated with the metadata, then with the
\* element's variables, then with the non-empty additional variables
GetTextData(metadata, config_vars, additional_vars) ==
    IF Len(additional_vars) > 0
    THEN UpdateItems(UpdateItems(UpdateItems(Defaults, metadata), config_vars), additional_vars)
    ELSE UpdateItems(UpdateItems(Defaults, metadata), config_vars)

\* the config of the text element, as the factory sees it
TextConfig == Comp("dict", TRUE, "text", TRUE, TRUE)

ContentSamples ==
    { <<"H", "i", " ", "{", "a", "}">>, <<"{", "m", "}">>, <<"{", "a", "}", "{", "b", "}">>,
      <<"{", "b", "}", " ", "{", "a", "}", " ", "{", "a", "}">>,
      <<"{", "{", "a", "}", "b", "}">>, <<"{", "a">>, <<"o", "k">>, <<>>,
      <<"{", "date", "}", " ", "{", "row_count", "}", " ", "{", "a", "}">> }

ValueSamples ==
    { StrValue(<<"A", "d", "a">>), StrValue(<<"{", "b", "}">>), StrValue(<<>>), IntValue(42) }

\* metadata of a mapper without and with a loaded dataset
MetadataSamples ==
    { <<>>,
      << Item("row_count", IntValue(3)), Item("column_count", IntValue(2)),
         Item("file_name", StrValue(<<"data.xlsx">>)) >> }

CustomSamples ==
    { <<>>, <<Item("a", StrValue(<<"R">>))>>,
      <<Item("row_count", IntValue(9)), Item("date", StrValue(<<"R">>))>> }

DictSamples ==
    { <<>>, <<Item("date", StrValue(<<"C">>))>>,
      <<Item("row_count", IntValue(7)), Item("a", StrValue(<<"A", "d", "a">>))>> }
    \cup { <<Item(k, v)>> : k \in {"a", "b"}, v \in ValueSamples }
    \cup { <<Item("a", v), Item("b", w)>> : v \in ValueSamples, w \in ValueSamples }
    \cup { <<Item("b", v), Item("a", w)>> : v \in ValueSamples, w \in ValueSamples }

TextIdle ==
    /\ t_comp = TextComp(<<>>, <<>>)
    /\ t_data = NoDict
    /\ t_metadata = <<>>
    /\ t_custom = <<>>
    /\ t_text = NotRendered

\* an element with data for a direct render call, or an element inside a
\* generator with its mapper's metadata and its run-time variables
TextInit ==
    /\ t_comp \in { TextComp(content, variables) :
                       content \in ContentSamples, variables \in DictSamples }
    /\ \/ /\ t_data \in {NoDict} \cup { DictData(items) : items \in DictSamples }
          /\ t_metadata = <<>>
          /\ t_custom = <<>>
       \/ /\ t_data = NoDict
          /\ t_metadata \in MetadataSamples
          /\ t_custom \in CustomSamples
    /\ t_text = NotRendered

\* render(slide, t_data): the text of the text box it adds
render_text ==
    /\ t_text = NotRendered
    /\ t_text' = Rendered(SubstituteVariables(t_comp, t_data), "render")
    /\ UNCHANGED <<t_comp, t_data, t_metadata, t_custom, coreVars, mapperVars, tableVars, partVars>>

\* _render_component for the text element: the factory creates it, the
\* mapper supplies its variable dictionary, the element renders; an
\* exception of any step ends the element
render_component_text ==
    /\ t_text = NotRendered
    /\ IF CreateComponent(TextConfig, NoTemplate).ok
       THEN /\ t_data' = DictData(GetTextData(t_metadata, t_comp.variables, t_custom))
            /\ t_text' = Rendered(SubstituteVariables(t_comp,
                              DictData(GetTextData(t_metadata, t_comp.variables, t_custom))),
                            "generate")
       ELSE /\ t_data' = t_data
            /\ t_text' = NotCreatedText
    /\ UNCHANGED <<t_comp, t_metadata, t_custom, coreVars, mapperVars, tableVars, partVars>>

-----------------------------------------------------------------------------
(* TableComponent.render.  The element reads columns, column_mapping,      *)
(* sort_by and ascending of its data_source.  A drawn table is described   *)
(* by its header and by the DataFrame rows its cells are formatted from,   *)
(* in the order of the table rows.                                         *)

\* "Apply column filtering": no test that a configured column exists
TableColumns(df, src) ==
    IF Len(src.columns) > 0 THEN Project(df, AvailableColumns(df, src.columns)) ELSE df

\* "Apply sorting": ascending defaults to True
TableSort(df, src) ==
    IF src.sort_by # "" /\ HasColumn(df, src.sort_by)
    THEN SortValues(df, src.sort_by, src.ascending # "false")
    ELSE df

\* TableComponent._prepare_data for None or a DataFrame
TablePrepare(input, src) ==
    IF input.kind = "None" THEN NoFrame
    ELSE TableSort(Rename(TableColumns(input, src), src.column_mapping), src)

NoShape == [kind |-> "<none>", header |-> <<>>, rows |-> <<>>]
EmptyTable == [kind |-> "placeholder", header |-> <<>>, rows |-> <<>>]
TableShape(df) == [kind |-> "table", header |-> df.columns, rows |-> df.rows]

\* render: the placeholder text box, or the table with its header row and
\* one table row per DataFrame row (df.iterrows())
RenderTable(input, src) ==
    IF TablePrepare(input, src).kind = "None" \/ Empty(TablePrepare(input, src))
    THEN EmptyTable
    ELSE TableShape(TablePrepare(input, src))

TableIdle ==
    /\ tb_source = NoSource
    /\ tb_data = NoFrame
    /\ tb_shape = NoShape

TableInit ==
    /\ tb_source \in {src \in SourceSamples : src.top_n = 0}
    /\ tb_data \in DatasetSamples
    /\ tb_shape = NoShape

\* one call render(slide, tb_data)
render_table ==
    /\ tb_shape = NoShape
    /\ tb_shape' = RenderTable(tb_data, tb_source)
    /\ UNCHANGED <<tb_source, tb_data, coreVars, mapperVars, textVars, partVars>>

-----------------------------------------------------------------------------
(* ChartComponent.render.  Lengths are in tenths of an inch, so that the   *)
(* pixel extent of w tenths at d dpi is (w * d) \div 10.                   *)

MAX_DIMENSION_PX == 10000

\* the backend step that raises during one render, if any
ChartSteps == {"none", "plot", "tempfile", "savefig", "verify", "close", "embed"}

\* FigWidth, were the width not clamped
FigWidth_Unclamped(raw_width) == raw_width

\* "Clamp to reasonable bounds": 1.0 .. 20.0 inches wide, else 20.0 or 9.0
FigWidth(raw_width) ==
    IF raw_width > 200 \/ raw_width < 10
    THEN (IF raw_width > 200 THEN 200 ELSE 90)
    ELSE raw_width

\* FigHeight, were the height not clamped
FigHeight_Unclamped(raw_height) == raw_height

\* 1.0 .. 15.0 inches high, else 15.0 or 5.0
FigHeight(raw_height) ==
    IF raw_height > 150 \/ raw_height < 10
    THEN (IF raw_height > 150 THEN 150 ELSE 50)
    ELSE raw_height

\* first adjustment of dpi = 100 against max_pixels = 10000
FirstDpi(fig_width, fig_height) ==
    LET dpi == 100
        max_pixels == 10000
    IN  IF fig_width * dpi > max_pixels * 10 \/ fig_height * dpi > max_pixels * 10
        THEN Larger(50, Smaller(Smaller((max_pixels * 10) \div fig_width,
                                        (max_pixels * 10) \div fig_height), dpi))
        ELSE dpi

\* int(fig_width * dpi)
Pixels(length, dpi) == (length * dpi) \div 10

\* second adjustment, "Validate dimensions before saving":
\* new_dpi = max(50, int(dpi * min(MAX / w_px, MAX / h_px, 1.0)))
SaveDpi(fig_width, fig_height) ==
    LET dpi == FirstDpi(fig_width, fig_height)
        w_px == Pixels(fig_width, dpi)
        h_px == Pixels(fig_height, dpi)
        longer == Larger(w_px, h_px)
    IN  IF w_px > MAX_DIMENSION_PX \/ h_px > MAX_DIMENSION_PX
        THEN Larger(50, (dpi * MAX_DIMENSION_PX) \div longer)
        ELSE dpi

NoRaster == <<0, 0>>

\* the data_source keys a ChartComponent reads in __init__; "" and 0 stand
\* for None
ChartSource(x_column, y_column, sort_by, top_n) ==
    [x_column |-> x_column, y_column |-> y_column, series_column |-> "",
     sort_by |-> sort_by, top_n |-> top_n]

\* the dropna steps of _prepare_data
DropMissing(df, src) ==
    LET y_kept == IF src.y_column # "" /\ HasColumn(df, src.y_column)
                  THEN DropNa(df, src.y_column) ELSE df
    IN  IF src.x_column # "" /\ HasColumn(df, src.x_column)
        THEN DropNa(y_kept, src.x_column) ELSE y_kept

\* the sort and top-N steps of _prepare_data
SortAndCut(df, src) ==
    LET sorted == IF src.sort_by # "" /\ HasColumn(df, src.sort_by)
                  THEN SortValues(df, src.sort_by, FALSE) ELSE df
    IN  IF src.top_n > 0 THEN HeadOf(sorted, src.top_n) ELSE sorted

\* ChartComponent._prepare_data: the frame to chart, or NoFrame for None.
\* input.kind "list" is a list of row mappings, "other" any other value.
PrepareData(input, src) ==
    IF input.kind \notin {"frame", "list"} THEN NoFrame
    ELSE IF input.kind = "list" /\ Len(input.rows) = 0 THEN NoFrame
    ELSE IF \A col \in {src.x_column, src.y_column, src.series_column} :
                col = "" \/ ~HasColumn(input, col)
    THEN NoFrame
    ELSE IF Empty(DropMissing(input, src)) THEN NoFrame
    ELSE SortAndCut([DropMissing(input, src) EXCEPT !.kind = "frame"], src)

\* pixel size at which the figure is rasterized by savefig
Raster(size) ==
    LET fig_width == FigWidth(size[1])
        fig_height == FigHeight(size[2])
        dpi == SaveDpi(fig_width, fig_height)
    IN  <<Pixels(fig_width, dpi), Pixels(fig_height, dpi)>>

\* _generate_chart: the path it returns (or None), the temp files it leaves
\* behind and the raster it asked savefig for.  An exception anywhere in the
\* outer try is answered by "return None"; the one of the verification pass
\* is swallowed by its own handler.
GenerateChart(size, fails, temp_path) ==
    IF fails = "plot" \/ fails = "tempfile"
    THEN [path |-> "", files |-> {}, raster |-> NoRaster]
    ELSE IF fails = "savefig"
    THEN [path |-> "", files |-> {temp_path}, raster |-> Raster(size)]
    ELSE IF fails = "close"
    THEN [path |-> "", files |-> {temp_path}, raster |-> Raster(size)]
    ELSE [path |-> temp_path, files |-> {temp_path}, raster |-> Raster(size)]

\* "Verify saved image dimensions": the pixel size of the file afterwards.
\* Only a file that is too wide is resized, to the limit in width and to
\* int(actual_height * scale) in height.
VerifySaved(actual) ==
    IF actual[1] > MAX_DIMENSION_PX \/ actual[2] > MAX_DIMENSION_PX
    THEN (IF actual[1] > MAX_DIMENSION_PX
          THEN <<MAX_DIMENSION_PX, (actual[2] * MAX_DIMENSION_PX) \div actual[1]>>
          ELSE actual)
    ELSE actual

\* the file as the verification pass leaves it; an exception inside the
\* pass (PIL missing, unreadable file) is swallowed and leaves it as written
AfterVerification(written, fails) ==
    IF fails = "verify" THEN written ELSE VerifySaved(written)

\* the chart element rendered here, and the data values handed to it
SalesByBrand == ChartSource("Brand", "Sales", "Sales", 2)

ChartDataNames ==
    {"none", "other", "empty list", "empty", "no columns", "all missing", "rows"}

ChartData(name) ==
    CASE name = "none"        -> NoFrame
      [] name = "other"       -> [kind |-> "other", columns |-> <<>>, rows |-> <<>>]
      [] name = "empty list"  -> [kind |-> "list", columns |-> <<>>, rows |-> <<>>]
      [] name = "empty"       -> Frame(<<"Brand", "Sales">>, <<>>)
      [] name = "no columns"  -> Frame(<<"Region", "Units">>, <<<<1, 10>>, <<2, 20>>>>)
      [] name = "all missing" -> Frame(<<"Brand", "Sales">>, <<<<1, NaN>>, <<NaN, 20>>>>)
      [] name = "rows"        -> Frame(<<"Brand", "Sales">>,
                                       <<<<1, 10>>, <<2, NaN>>, <<3, 30>>, <<4, 20>>>>)

\* RenderChart, were the path returned by _generate_chart not tested before
\* it is handed to add_picture
RenderChart_NoPathTest(size, env, temp_path) ==
    IF PrepareData(ChartData(env.data), SalesByBrand) = NoFrame
    THEN [outcome |-> "placeholder", files |-> {}, raster |-> NoRaster]
    ELSE LET chart == GenerateChart(size, env.fails, temp_path)
         IN  [outcome |-> IF env.fails = "embed" \/ chart.path = ""
                          THEN "raised" ELSE "picture",
              files |-> chart.files \ {chart.path}, raster |-> chart.raster]

\* render(slide, data): how it ends, the temp files that exist afterwards
RenderChart(size, env, temp_path) ==
    IF \/ PrepareData(ChartData(env.data), SalesByBrand) = NoFrame
       \/ Empty(PrepareData(ChartData(env.data), SalesByBrand))
    THEN [outcome |-> "placeholder", files |-> {}, raster |-> NoRaster]
    ELSE LET chart == GenerateChart(size, env.fails, temp_path)
         IN  IF chart.path = ""
             THEN [outcome |-> "placeholder", files |-> chart.files, raster |-> chart.raster]
             ELSE [outcome |-> IF env.fails = "embed" THEN "raised" ELSE "picture",
                   files |-> chart.files \ {chart.path}, raster |-> chart.raster]

\* pixel sizes of the file that savefig writes: as asked, or another size
ActualSamples ==
    {NoRaster, <<10000, 10000>>, <<10001, 10001>>, <<12000, 800>>, <<800, 12000>>,
     <<12000, 30000>>}

\* element sizes in tenths of an inch (validate() admits positive sizes only)
WidthSamples  == {1, 9, 10, 90, 200, 201, 1000, 100000}
HeightSamples == {1, 9, 10, 50, 150, 151, 1000, 100000}

ChartInit ==
    /\ c_size \in WidthSamples \X HeightSamples
    /\ c_env \in [data : ChartDataNames, fails : ChartSteps]
    /\ c_env.data # "rows" => c_env.fails = "none"
    /\ c_temp = {}
    /\ c_raster = NoRaster
    /\ c_outcome = Pending
    /\ c_actual \in ActualSamples
    /\ c_actual # NoRaster => c_env.data = "rows" /\ c_env.fails \in {"none", "verify"}
    /\ c_file = NoRaster

\* one call render(slide, data) of a chart element
render_chart ==
    /\ c_outcome = Pending
    /\ LET r == RenderChart(c_size, c_env, "chart.png")
       IN  /\ c_outcome' = r.outcome
           /\ c_temp' = c_temp \cup r.files
           /\ c_raster' = r.raster
           /\ c_file' = IF r.raster = NoRaster \/ c_env.fails = "savefig" THEN NoRaster
                        ELSE AfterVerification(IF c_actual = NoRaster THEN r.raster ELSE c_actual,
                                               c_env.fails)
    /\ UNCHANGED <<c_size, c_env, c_actual, genVars, valVars, facVars, batchVars, unitVars>>

-----------------------------------------------------------------------------
(* TemplateManager.create_empty_template, add_slide and                    *)
(* validate_current_template, called on the generator's template manager   *)

\* create_empty_template: the structure installed as current template
CreateEmptyTemplate(name) == Template("dict", "list", <<>>, "dict", name)

\* add_slide: the template afterwards and what was raised
AddSlideOp(cur, layout, components) ==
    IF cur = NoTemplate
    THEN [current_template |-> cur, raised |-> TRUE, exc |-> "ValueError"]
    ELSE [current_template |->
              [cur EXCEPT !.slides = Append(cur.slides,
                                            Slide("dict", "list", components, LayoutStr(layout)))],
          raised |-> FALSE, exc |-> ""]

\* validate_current_template: what it raises
ValidateCurrentOp(cur) ==
    IF cur = NoTemplate THEN [raised |-> TRUE, exc |-> "ValueError"]
    ELSE [raised |-> ~ValidateTemplate(cur).ok,
          exc |-> IF ValidateTemplate(cur).ok THEN "" ELSE "ValueError"]

\* the names and the component lists the manager is called with
TemplateNames == {"Report"}
Typeless == Comp("dict", FALSE, "", TRUE, TRUE)
ComponentLists == {<<>>, <<TextOnly>>, <<Typeless>>}

create_empty_template(name) ==
    /\ current_template' = CreateEmptyTemplate(name)
    /\ result' = Outcome("create_empty_template", FALSE, "", NoOutputPath)
    /\ attempted' = <<>>
    /\ UNCHANGED <<template_path, data, custom_variables, presentation, disk, clock>>
    /\ UNCHANGED <<valVars, facVars, batchVars, chartVars, unitVars>>

add_slide(components) ==
    /\ Len(current_template.slides) < MaxSlides
    /\ LET r == AddSlideOp(current_template, "blank", components)
       IN  /\ current_template' = r.current_template
           /\ result' = Outcome("add_slide", r.raised, r.exc, NoOutputPath)
    /\ attempted' = <<>>
    /\ UNCHANGED <<template_path, data, custom_variables, presentation, disk, clock>>
    /\ UNCHANGED <<valVars, facVars, batchVars, chartVars, unitVars>>

validate_current_template ==
    /\ LET r == ValidateCurrentOp(current_template)
       IN  result' = Outcome("validate_current_template", r.raised, r.exc, NoOutputPath)
    /\ attempted' = <<>>
    /\ UNCHANGED <<current_template, template_path, data, custom_variables,
                   presentation, disk, clock>>
    /\ UNCHANGED <<valVars, facVars, batchVars, chartVars, unitVars>>

-----------------------------------------------------------------------------
(* A table or chart element and the data it is rendered with: either what  *)
(* get_data_for_component returns for the element's config, as in          *)
(* _render_component, or a dataset handed to render by the caller.  Mapper *)
(* and element read the same data_source mapping of the config.            *)

\* the data_source keys a ChartComponent reads; the charts drawn here have
\* x_column 'Company' and y_column 'Total'
ChartOf(src) == ChartSource("Company", "Total", src.sort_by, src.top_n)

\* the value that render(slide, data) is called with
HandedOver(held, config, direct) ==
    IF direct THEN held
    ELSE LET called == GetDataForComponent(
                           [ref \in {HeldRef, FreshRef} |-> IF ref = HeldRef THEN held ELSE NoFrame],
                           config)
         IN  called.heap[called.ret.ref]

\* the frame the element's _prepare_data makes of it
Prepared(input, config) ==
    IF config.type = "chart" THEN PrepareData(input, ChartOf(config.source))
    ELSE TablePrepare(input, config.source)

NotRun == [done |-> FALSE, input |-> NoFrame, shown |-> NoFrame]
Ran(input, shown) == [done |-> TRUE, input |-> input, shown |-> shown]

PipeIdle ==
    /\ p_data = NoFrame
    /\ p_config = MapperConfig(FALSE, "", NoSource)
    /\ p_direct = FALSE
    /\ p_run = NotRun

PipeInit ==
    /\ p_data \in DatasetSamples \ {NoFrame}
    /\ p_config \in {c \in MapperConfigSamples : c.type \in {"table", "chart"}}
    /\ p_direct \in BOOLEAN
    /\ p_run = NotRun

\* the element's data is fetched, where it is not handed in, and prepared
prepare_element ==
    /\ ~p_run.done
    /\ p_run' = Ran(HandedOver(p_data, p_config, p_direct),
                    Prepared(HandedOver(p_data, p_config, p_direct), p_config))
    /\ UNCHANGED <<p_data, p_config, p_direct, otherThanPipe>>

-----------------------------------------------------------------------------
(* ImageComponent._get_image_path.  A path is the directory it names and   *)
(* the rest of it: "cwd", "templates" and "assets" for the project root    *)
(* and its two subfolders, "abs" for an absolute path, "rel" for a         *)
(* relative path as written.                                               *)

At(dir, name) == [dir |-> dir, name |-> name]
NonePath   == At("<None>", "")
AbsentPath == At("<absent>", "")

\* the settings of a template that _get_image_path reads
LogoSettings(logo_path, embedded_logo_path) ==
    [loaded |-> TRUE, logo_path |-> logo_path, embedded_logo_path |-> embedded_logo_path]
NoSettings == [loaded |-> FALSE, logo_path |-> AbsentPath, embedded_logo_path |-> AbsentPath]

\* ImageComponent(config): __init__ takes the config only, and
\* BaseComponent.__init__ is called without a template
ImageComponent(image_type, image_path) ==
    [image_type |-> image_type, image_path |-> image_path, template |-> NoSettings]

\* the data value: None, a mapping with some of the keys read here, or
\* another value
ImageData(kind, logo_path, image_path, template_logo) ==
    [kind |-> kind, logo_path |-> logo_path, image_path |-> image_path,
     template_logo |-> template_logo, template_embedded_logo |-> AbsentPath]
NoImageData == ImageData("None", AbsentPath, AbsentPath, AbsentPath)

\* "if data and isinstance(data, dict)"
DataGiven(input) ==
    /\ input.kind = "dict"
    /\ \E k \in {"logo_path", "image_path", "template_logo", "template_embedded_logo"} :
          input[k] # AbsentPath

Files(paths, assets_dir) == [paths |-> paths, assets_dir |-> assets_dir]

\* _resolve_logo_path
ResolveLogoPath(logo_path, fs) ==
    IF logo_path.dir = "abs"
    THEN (IF logo_path \in fs.paths THEN logo_path ELSE NonePath)
    ELSE IF At("cwd", logo_path.name) \in fs.paths THEN At("cwd", logo_path.name)
    ELSE IF At("templates", logo_path.name) \in fs.paths THEN At("templates", logo_path.name)
    ELSE IF fs.assets_dir /\ At("assets", logo_path.name) \in fs.paths
    THEN At("assets", logo_path.name)
    ELSE logo_path

\* a value is truthy unless it is None or missing
PathGiven(path) == path # NonePath /\ path # AbsentPath

\* the branch of one logo type: the resolved setting of the element's
\* template, else the data key of that name, else nothing (AbsentPath)
LogoBranch(comp, setting, key, input, fs) ==
    IF /\ comp.template.loaded
       /\ PathGiven(comp.template[setting])
       /\ PathGiven(ResolveLogoPath(comp.template[setting], fs))
    THEN ResolveLogoPath(comp.template[setting], fs)
    ELSE IF DataGiven(input) /\ input[key] # AbsentPath
    THEN input[key]
    ELSE AbsentPath

\* _get_image_path
GetImagePath(comp, input, fs) ==
    IF DataGiven(input) /\ input.logo_path # AbsentPath THEN input.logo_path
    ELSE IF DataGiven(input) /\ input.image_path # AbsentPath THEN input.image_path
    ELSE IF /\ comp.image_type = "template_logo"
            /\ LogoBranch(comp, "logo_path", "template_logo", input, fs) # AbsentPath
    THEN LogoBranch(comp, "logo_path", "template_logo", input, fs)
    ELSE IF /\ comp.image_type = "template_embedded_logo"
            /\ LogoBranch(comp, "embedded_logo_path", "template_embedded_logo", input, fs)
                 # AbsentPath
    THEN LogoBranch(comp, "embedded_logo_path", "template_embedded_logo", input, fs)
    ELSE comp.image_path

NotAsked == [done |-> FALSE, path |-> NonePath]

\* the elements, templates, data values and file systems looked at
LogoName == "logo.png"
StaticPath == At("rel", "static.png")

ImageSamples ==
    { ImageComponent(image_type, image_path) :
        image_type \in {"file", "template_logo", "template_embedded_logo"},
        image_path \in {StaticPath, NonePath} }
    \ {ImageComponent("file", NonePath)}

SettingsSamples ==
    {NoSettings}
    \cup { LogoSettings(logo_path, embedded) :
             logo_path \in {AbsentPath, At("rel", LogoName), At("abs", LogoName)},
             embedded \in {AbsentPath, At("rel", "mark.png")} }

ImageDataSamples ==
    {NoImageData, ImageData("other", AbsentPath, AbsentPath, AbsentPath)}
    \cup { ImageData("dict", logo_path, image_path, template_logo) :
             logo_path \in {AbsentPath, At("rel", "given.png")},
             image_path \in {AbsentPath, At("rel", "other.png")},
             template_logo \in {AbsentPath, At("rel", "handed.png")} }

FilesSamples ==
    { Files(paths, assets_dir) :
        paths \in SUBSET {At("cwd", LogoName), At("templates", LogoName),
                          At("assets", LogoName), At("abs", LogoName)},
        assets_dir \in BOOLEAN }

ImageIdle ==
    /\ i_comp = ImageComponent("file", StaticPath)
    /\ i_template = NoSettings
    /\ i_data = NoImageData
    /\ i_files = Files({}, FALSE)
    /\ i_path = NotAsked

ImageInit ==
    /\ i_comp \in ImageSamples
    /\ i_template \in SettingsSamples
    /\ i_data \in ImageDataSamples
    /\ i_files \in {fs \in FilesSamples : At("assets", LogoName) \in fs.paths => fs.assets_dir}
    /\ i_path = NotAsked

\* one call _get_image_path(i_data) on the element
get_image_path ==
    /\ ~i_path.done
    /\ i_path' = [done |-> TRUE, path |-> GetImagePath(i_comp, i_data, i_files)]
    /\ UNCHANGED <<i_comp, i_template, i_data, i_files, otherThanImage>>

-----------------------------------------------------------------------------
(* SummaryComponent with insight_types ['key_metrics'].  A metrics mapping *)
(* is written like a DataFrame of one row, kind "dict": its keys in        *)
(* columns, its values in the row.  An insight item is what it reports     *)
(* ("value", "Total", "Average"), of which key or column, and the number:  *)
(* an integer, or an average in tenths as ',.1f' prints it.                *)

Metrics(keys, values) == [kind |-> "dict", columns |-> keys, rows |-> <<values>>]

SummaryComponent(metric_columns, max_items) ==
    [metric_columns |-> metric_columns, max_items |-> max_items]

Insight(what, name, number) == [what |-> what, name |-> name, number |-> number]

\* SummaryComponent._prepare_data: a DataFrame is copied, a mapping of
\* numbers becomes a DataFrame of one row, None stays None
PrepareSummary(input) ==
    IF input.kind = "None" THEN NoFrame
    ELSE IF input.kind = "dict" THEN [input EXCEPT !.kind = "frame"]
    ELSE input

\* the values of a column that are not missing
Present(df, col) ==
    SelectSeq([i \in 1..Len(df.rows) |-> df.rows[i][ColIndex(df, col)]], LAMBDA x : x # NaN)

RECURSIVE SumOf(_)
SumOf(values) == IF values = <<>> THEN 0 ELSE Head(values) + SumOf(Tail(values))

\* a quotient in tenths, rounded to the nearest and at a tie to the even one
Tenths(total, count) ==
    LET q == (10 * total) \div count
        r == (10 * total) % count
    IN  IF 2 * r < count THEN q
        ELSE IF 2 * r > count THEN q + 1
        ELSE IF q % 2 = 0 THEN q ELSE q + 1

\* df[col].mean() in tenths; NaN for a column without values
MeanOf(values) == IF values = <<>> THEN NaN ELSE Tenths(SumOf(values), Len(values))

\* the first three items of a mapping, as 'key: value'
PassThrough(raw) ==
    [j \in 1..Smaller(3, Len(raw.columns)) |-> Insight("value", raw.columns[j], raw.rows[1][j])]

\* "Analyze numeric columns": the loop over the columns from position j on,
\* left once three items or more are collected
RECURSIVE AnalyzeColumns(_, _, _, _)
AnalyzeColumns(df, cols, j, insights) ==
    IF j > Len(cols) THEN insights
    ELSE IF ~HasColumn(df, cols[j]) THEN AnalyzeColumns(df, cols, j + 1, insights)
    ELSE LET added == insights \o <<Insight("Total", cols[j], SumOf(Present(df, cols[j]))),
                                     Insight("Average", cols[j], MeanOf(Present(df, cols[j])))>>
         IN  IF Len(added) >= 3 THEN added
             ELSE AnalyzeColumns(df, cols, j + 1, added)

\* _generate_key_metrics(df, raw_data)
GenerateKeyMetrics(comp, df, raw) ==
    IF raw.kind = "dict" /\ df.kind = "None" THEN PassThrough(raw)
    ELSE IF df.kind = "None" \/ Empty(df) THEN <<>>
    ELSE AnalyzeColumns(df, IF comp.metric_columns # <<>> THEN comp.metric_columns
                            ELSE df.columns, 1, <<>>)

\* _generate_insights for key_metrics: insights[:max_items]
GenerateInsights(comp, df, raw) ==
    SubSeq(GenerateKeyMetrics(comp, df, raw), 1,
           Smaller(comp.max_items, Len(GenerateKeyMetrics(comp, df, raw))))

\* render(slide, data): the items drawn (none: the placeholder)
RenderSummary(comp, input) == GenerateInsights(comp, PrepareSummary(input), input)

NoInsights == [done |-> FALSE, items |-> <<>>]

\* the elements and data values looked at
MetricRows == {<<10, 3, 1>>, <<30, 4, NaN>>, <<20, 4, 2>>}

SummaryDataSamples ==
    {NoFrame}
    \cup { Frame(<<"Sales", "Units", "Margin">>, rows) : rows \in SeqsUpTo(MetricRows, MaxRows) }
    \cup { Metrics(<<"Sales">>, <<1200>>), Metrics(<<"Sales", "Units">>, <<1200, 7>>),
           Metrics(<<"Sales", "Units", "Margin", "Stores">>, <<1200, 7, 3, 12>>),
           Metrics(<<>>, <<>>) }

SummarySamples ==
    { SummaryComponent(metric_columns, max_items) :
        metric_columns \in {<<>>, <<"Sales">>, <<"Sales", "Units">>, <<"Units", "Price", "Sales">>,
                            <<"Sales", "Units", "Margin">>, <<"Price">>},
        max_items \in {3, 5} }

SummaryIdle ==
    /\ s_comp = SummaryComponent(<<>>, 5)
    /\ s_data = NoFrame
    /\ s_insights = NoInsights

SummaryInit ==
    /\ s_comp \in SummarySamples
    /\ s_data \in SummaryDataSamples
    /\ s_insights = NoInsights

\* one call render(slide, s_data)
render_summary ==
    /\ ~s_insights.done
    /\ s_insights' = [done |-> TRUE, items |-> RenderSummary(s_comp, s_data)]
    /\ UNCHANGED <<s_comp, s_data, otherThanSummary>>

-----------------------------------------------------------------------------
(* DataMapper as a session object: load_data, apply_column_mapping,        *)
(* filter_data, aggregate_data and reset change self.data, and             *)
(* _extract_metadata describes it in self.metadata.                        *)

\* self.metadata, as far as it describes the dataset; {} has none of the keys
NoMetadata == [present |-> FALSE, row_count |-> 0, column_count |-> 0, columns |-> <<>>]

\* _extract_metadata: returns at once when there is no dataset
ExtractMetadata(df, metadata) ==
    IF df.kind = "None" THEN metadata
    ELSE [present |-> TRUE, row_count |-> Len(df.rows), column_count |-> Len(df.columns),
          columns |-> df.columns]

Called(op, raised, exc) == [op |-> op, raised |-> raised, exc |-> exc]

\* the object after a call that raised before changing anything
Unchanged(df, metadata, op, exc) ==
    [data |-> df, metadata |-> metadata, result |-> Called(op, TRUE, exc)]

\* the files load_data is pointed at: missing, of an unsupported format, or
\* a sheet
SheetPaths == {"missing.xlsx", "notes.txt", "sales.xlsx", "brands.xlsx"}
Sheet(path) ==
    CASE path = "missing.xlsx" -> File(FALSE, FALSE, NoFrame)
      [] path = "notes.txt"    -> File(TRUE, FALSE, NoFrame)
      [] path = "sales.xlsx"   -> File(TRUE, TRUE,
                                       Frame(<<"Company", "Total">>,
                                             <<<<1, 10>>, <<2, 30>>, <<1, 30>>>>))
      [] path = "brands.xlsx"  -> File(TRUE, TRUE,
                                       Frame(<<"Company", "Total">>, <<<<2, NaN>>, <<3, 20>>>>))

\* load_data
MapperLoadData(df, metadata, path) ==
    IF ~Sheet(path).exists THEN Unchanged(df, metadata, "load_data", "FileNotFoundError")
    ELSE IF ~Sheet(path).readable THEN Unchanged(df, metadata, "load_data", "Exception")
    ELSE [data |-> Sheet(path).value,
          metadata |-> ExtractMetadata(Sheet(path).value, metadata),
          result |-> Called("load_data", FALSE, "")]

\* {v: k for k, v in mapping.items()}
ReverseMapping(mapping) ==
    [v \in {mapping[k] : k \in DOMAIN mapping} |-> CHOOSE k \in DOMAIN mapping : mapping[k] = v]

\* apply_column_mapping
ApplyColumnMapping(df, metadata, mapping, reverse) ==
    IF df.kind = "None" THEN Unchanged(df, metadata, "apply_column_mapping", "ValueError")
    ELSE LET renamed == Rename(df, IF reverse THEN ReverseMapping(mapping) ELSE mapping)
         IN  [data |-> renamed, metadata |-> ExtractMetadata(renamed, metadata),
              result |-> Called("apply_column_mapping", FALSE, "")]

\* self.data[self.data[column].isin(values)], or its complement
FilterRows(df, column, values, exclude) ==
    [df EXCEPT !.rows = SelectSeq(df.rows,
                                  LAMBDA r : (r[ColIndex(df, column)] \in values) # exclude)]

\* filter_data: the metadata is left as it is
FilterData(df, metadata, column, values, exclude) ==
    IF df.kind = "None" THEN Unchanged(df, metadata, "filter_data", "ValueError")
    ELSE IF ~HasColumn(df, column) THEN Unchanged(df, metadata, "filter_data", "ValueError")
    ELSE [data |-> FilterRows(df, column, values, exclude), metadata |-> metadata,
          result |-> Called("filter_data", FALSE, "")]

\* a set of numbers in ascending order
RECURSIVE Ascending(_)
Ascending(S) == IF S = {} THEN <<>> ELSE <<Min(S)>> \o Ascending(S \ {Min(S)})

\* groupby(group_by).agg({column: 'sum'}).reset_index(): one row per key,
\* keys ascending, rows without a key left out, missing values not summed
GroupSum(df, group_by, column) ==
    LET keys == Ascending({df.rows[i][ColIndex(df, group_by)] : i \in 1..Len(df.rows)} \ {NaN})
        group(key) == [df EXCEPT !.rows = SelectSeq(df.rows,
                                                    LAMBDA r : r[ColIndex(df, group_by)] = key)]
    IN  Frame(<<group_by, column>>,
              [i \in 1..Len(keys) |-> <<keys[i], SumOf(Present(group(keys[i]), column))>>])

\* aggregate_data: the metadata is left as it is
AggregateData(df, metadata, group_by, column) ==
    IF df.kind = "None" THEN Unchanged(df, metadata, "aggregate_data", "ValueError")
    ELSE IF ~HasColumn(df, group_by) \/ ~HasColumn(df, column)
    THEN Unchanged(df, metadata, "aggregate_data", "KeyError")
    ELSE [data |-> GroupSum(df, group_by, column), metadata |-> metadata,
          result |-> Called("aggregate_data", FALSE, "")]

\* the arguments of the calls
MappingSamples == {[c \in {"Total"} |-> "Sum"], [c \in {"Company"} |-> "Brand"]}
FilterValues == {{1}, {2, 3}}

SessionIdle ==
    /\ d_data = NoFrame
    /\ d_metadata = NoMetadata
    /\ d_result = Called("init", FALSE, "")

\* DataMapper()
SessionInit == SessionIdle

mapper_load_data(path) ==
    LET r == MapperLoadData(d_data, d_metadata, path)
    IN  /\ d_data' = r.data /\ d_metadata' = r.metadata /\ d_result' = r.result
        /\ UNCHANGED otherThanSession

apply_column_mapping(mapping, reverse) ==
    LET r == ApplyColumnMapping(d_data, d_metadata, mapping, reverse)
    IN  /\ d_data' = r.data /\ d_metadata' = r.metadata /\ d_result' = r.result
        /\ UNCHANGED otherThanSession

filter_data(column, values, exclude) ==
    LET r == FilterData(d_data, d_metadata, column, values, exclude)
    IN  /\ d_data' = r.data /\ d_metadata' = r.metadata /\ d_result' = r.result
        /\ UNCHANGED otherThanSession

aggregate_data(group_by, column) ==
    LET r == AggregateData(d_data, d_metadata, group_by, column)
    IN  /\ d_data' = r.data /\ d_metadata' = r.metadata /\ d_result' = r.result
        /\ UNCHANGED otherThanSession

mapper_reset ==
    /\ d_data' = NoFrame
    /\ d_metadata' = NoMetadata
    /\ d_result' = Called("reset", FALSE, "")
    /\ UNCHANGED otherThanSession

-----------------------------------------------------------------------------
(* ChartComponent._get_colors.  A color value is its text and whether the  *)
(* text starts with '#'.                                                   *)

Hex(code)  == [text |-> code, hash |-> TRUE]
Word(text) == [text |-> text, hash |-> FALSE]

\* the list returned for 'brand', and by get_template_color_list without a
\* color scheme
BrandColors ==
    <<Hex("#2563EB"), Hex("#10B981"), Hex("#F59E0B"), Hex("#EF4444"), Hex("#8B5CF6"),
      Hex("#EC4899")>>

\* "Fallback colors"
FallbackColors ==
    <<Hex("#1f77b4"), Hex("#ff7f0e"), Hex("#2ca02c"), Hex("#d62728"), Hex("#9467bd"),
      Hex("#8c564b")>>

\* the value of style 'colors': a list, a string, or anything else
ListStyle(list)  == [kind |-> "list", list |-> list, name |-> ""]
NamedStyle(name) == [kind |-> "str", list |-> <<>>, name |-> name]
OtherStyle       == [kind |-> "other", list |-> <<>>, name |-> ""]

\* plt.rcParams['axes.prop_cycle']: the lookup raises, or yields entries; an
\* entry is its color, NoColor for an entry without one
NoColor == Word("")
Cycle(raises, entries) == [raises |-> raises, entries |-> entries]

\* the colors collected from the cycle: the first ten
CycleColors(entries) ==
    SubSeq(SelectSeq(entries, LAMBDA c : c # NoColor), 1,
           Smaller(10, Len(SelectSeq(entries, LAMBDA c : c # NoColor))))

\* _get_colors
GetColors(style, cycle) ==
    IF style.kind = "list" /\ Len(style.list) > 0 THEN style.list
    ELSE IF style.kind = "str" /\ style.name = "brand" THEN BrandColors
    ELSE IF ~cycle.raises /\ Len(CycleColors(cycle.entries)) > 0
    THEN CycleColors(cycle.entries)
    ELSE FallbackColors

\* the template context of an element: None, or a template with the items
\* of settings.color_scheme
NoContext == [kind |-> "None", color_scheme |-> <<>>]
Context(color_scheme) == [kind |-> "dict", color_scheme |-> color_scheme]

ColorKeys == <<"primary", "secondary", "accent", "negative", "neutral">>

\* the values of the scheme under the keys of ColorKeys, in that order
RECURSIVE NamedColors(_, _)
NamedColors(scheme, i) ==
    IF i > Len(ColorKeys) THEN <<>>
    ELSE (IF ColorKeys[i] \in ItemKeys(scheme) THEN <<ValueOf(scheme, ColorKeys[i])>> ELSE <<>>)
         \o NamedColors(scheme, i + 1)

\* "Add any additional colors from scheme"
ExtraColors(scheme) ==
    LET extra == SelectSeq(scheme, LAMBDA item :
                     /\ \A i \in 1..Len(ColorKeys) : ColorKeys[i] # item.key
                     /\ item.value.hash)
    IN  [i \in 1..Len(extra) |-> extra[i].value]

\* BaseComponent.get_template_color_list
GetTemplateColorList(template) ==
    IF template.kind = "None" \/ Len(template.color_scheme) = 0 THEN BrandColors
    ELSE IF Len(NamedColors(template.color_scheme, 1) \o ExtraColors(template.color_scheme)) = 0
    THEN BrandColors
    ELSE NamedColors(template.color_scheme, 1) \o ExtraColors(template.color_scheme)

NoColors == [done |-> FALSE, list |-> <<>>]

StyleSamples ==
    { ListStyle(<<Hex("#111111"), Word("red")>>), ListStyle(<<>>), NamedStyle("brand"),
      NamedStyle("default"), NamedStyle("pastel"), OtherStyle }

ContextSamples ==
    { NoContext, Context(<<>>),
      Context(<<Item("accent", Hex("#00FF00")), Item("primary", Hex("#FF0000"))>>),
      Context(<<Item("highlight", Hex("#ABCDEF")), Item("note", Word("n/a"))>>),
      Context(<<Item("note", Word("n/a"))>>) }

CycleSamples ==
    { Cycle(TRUE, <<>>), Cycle(FALSE, <<>>), Cycle(FALSE, <<NoColor>>),
      Cycle(FALSE, <<Hex("#1f77b4"), NoColor, Hex("#ff7f0e")>>),
      Cycle(FALSE, [i \in 1..11 |-> Hex("#0000FF")]) }

ColorIdle ==
    /\ k_style = NamedStyle("default")
    /\ k_template = NoContext
    /\ k_cycle = Cycle(FALSE, <<>>)
    /\ k_colors = NoColors

ColorInit ==
    /\ k_style \in StyleSamples
    /\ k_template \in ContextSamples
    /\ k_cycle \in CycleSamples
    /\ k_colors = NoColors

\* one call _get_colors(df) of a chart element of a document generated from
\* k_template
get_colors ==
    /\ ~k_colors.done
    /\ k_colors' = [done |-> TRUE, list |-> GetColors(k_style, k_cycle)]
    /\ UNCHANGED <<k_style, k_template, k_cycle, otherThanColor>>

-----------------------------------------------------------------------------
(* Specifications.  Each one exercises one part of the program and leaves  *)
(* the variables of the other parts at their initial values.               *)

ValIdle   == v_template = NoTemplate /\ v_result = NotValidated
FacIdle   == f_config = NotADict /\ f_template = NoTemplate /\ f_result = NotCreated
MapperIdle ==
    /\ m_heap = [ref \in {HeldRef, FreshRef} |-> NoFrame]
    /\ m_metadata = Metadata(NoFrame)
    /\ m_config = MapperConfig(FALSE, "", NoSource)
    /\ m_ret = NotCalled
ChartIdle == /\ c_size = <<90, 50>>
             /\ c_env = [data |-> "none", fails |-> "none"]
             /\ c_temp = {} /\ c_raster = NoRaster /\ c_outcome = Pending
             /\ c_actual = NoRaster /\ c_file = NoRaster






\* the further parts at rest
PartIdle == ColorIdle /\ PipeIdle /\ ImageIdle /\ SummaryIdle /\ SessionIdle
UnitIdle == MapperIdle /\ TextIdle /\ TableIdle /\ PartIdle
IdleButColor ==
    /\ GenInit /\ BatchInit /\ ValIdle /\ FacIdle /\ ChartIdle
    /\ MapperIdle /\ TextIdle /\ TableIdle /\ PipeIdle /\ ImageIdle /\ SummaryIdle /\ SessionIdle
IdleButPipe ==
    /\ GenInit /\ BatchInit /\ ValIdle /\ FacIdle /\ ChartIdle
    /\ MapperIdle /\ TextIdle /\ TableIdle /\ ColorIdle /\ ImageIdle /\ SummaryIdle /\ SessionIdle
IdleButImage ==
    /\ GenInit /\ BatchInit /\ ValIdle /\ FacIdle /\ ChartIdle
    /\ MapperIdle /\ TextIdle /\ TableIdle /\ ColorIdle /\ PipeIdle /\ SummaryIdle /\ SessionIdle
IdleButSummary ==
    /\ GenInit /\ BatchInit /\ ValIdle /\ FacIdle /\ ChartIdle
    /\ MapperIdle /\ TextIdle /\ TableIdle /\ ColorIdle /\ PipeIdle /\ ImageIdle /\ SessionIdle
IdleButSession ==
    /\ GenInit /\ BatchInit /\ ValIdle /\ FacIdle /\ ChartIdle
    /\ MapperIdle /\ TextIdle /\ TableIdle /\ ColorIdle /\ PipeIdle /\ ImageIdle /\ SummaryIdle

\* the generator object
Init == GenInit /\ BatchInit /\ ValIdle /\ FacIdle /\ ChartIdle /\ UnitIdle
Next ==
    \/ \E path \in TemplatePaths : load_template(path)
    \/ \E path \in DataPaths : load_data(path)
    \/ \E variables \in VariableInputs : set_variables(variables)
    \/ \E output_path \in OutputPaths, backendRaises \in BOOLEAN :
           generate(output_path, backendRaises)
    \/ reset
    \/ Tick
Spec == Init /\ [][Next]_vars

\* the template manager's operations and generate
NextBuild ==
    \/ \E path \in {"empty.json", "one.json"} : load_template(path)
    \/ \E name \in TemplateNames : create_empty_template(name)
    \/ \E components \in ComponentLists : add_slide(components)
    \/ validate_current_template
    \/ \E backendRaises \in BOOLEAN : generate(Path("output", "report.pptx", -1), backendRaises)
SpecBuild == Init /\ [][NextBuild]_vars

\* _validate_template on every candidate value
InitValidate == GenInit /\ BatchInit /\ ValInit /\ FacIdle /\ ChartIdle /\ UnitIdle
NextValidate == Validate
SpecValidate == InitValidate /\ [][NextValidate]_vars

\* create_component on every sample config
InitFactory == GenInit /\ BatchInit /\ ValIdle /\ FacInit /\ ChartIdle /\ UnitIdle
NextFactory == CreateComponentCall
SpecFactory == InitFactory /\ [][NextFactory]_vars

\* the batch generator
InitBatch == GenInit /\ BatchInit /\ ValIdle /\ FacIdle /\ ChartIdle /\ UnitIdle
NextBatch ==
    \/ \E job \in JobSamples : add_job(job)
    \/ \E stamps \in Stamps(Len(jobs), clock) : generate_all(stamps)
    \/ get_summary
SpecBatch == InitBatch /\ [][NextBatch]_vars

\* get_data_for_component on every sample dataset and config
InitMapper == GenInit /\ BatchInit /\ ValIdle /\ FacIdle /\ ChartIdle /\ MapperInit /\ TextIdle /\ TableIdle /\ PartIdle
NextMapper == get_data_for_component \/ change_returned
SpecMapper == InitMapper /\ [][NextMapper]_vars

\* one render of every sample text element with every sample data
InitText == GenInit /\ BatchInit /\ ValIdle /\ FacIdle /\ ChartIdle /\ MapperIdle /\ TextInit /\ TableIdle /\ PartIdle
NextText == render_text \/ render_component_text
SpecText == InitText /\ [][NextText]_vars

\* one render of a table element on every sample dataset
InitTable == GenInit /\ BatchInit /\ ValIdle /\ FacIdle /\ ChartIdle /\ MapperIdle /\ TextIdle /\ TableInit /\ PartIdle
NextTable == render_table
SpecTable == InitTable /\ [][NextTable]_vars

\* one color resolution for every sample style, template and color cycle
InitColor == IdleButColor /\ ColorInit
NextColor == get_colors
SpecColor == InitColor /\ [][NextColor]_vars

InitPipe == IdleButPipe /\ PipeInit
NextPipe == prepare_element
SpecPipe == InitPipe /\ [][NextPipe]_vars

InitImage == IdleButImage /\ ImageInit
NextImage == get_image_path
SpecImage == InitImage /\ [][NextImage]_vars

InitSummary == IdleButSummary /\ SummaryInit
NextSummary == render_summary
SpecSummary == InitSummary /\ [][NextSummary]_vars

InitSession == IdleButSession /\ SessionInit
NextSession ==
    \/ \E path \in SheetPaths : mapper_load_data(path)
    \/ \E mapping \in MappingSamples, reverse \in BOOLEAN : apply_column_mapping(mapping, reverse)
    \/ \E column \in {"Company", "Brand", "Margin"}, values \in FilterValues, exclude \in BOOLEAN :
           filter_data(column, values, exclude)
    \/ \E column \in {"Total", "Sum"} : aggregate_data("Company", column)
    \/ mapper_reset
SpecSession == InitSession /\ [][NextSession]_vars

\* one render of a chart element
InitChart == GenInit /\ BatchInit /\ ValIdle /\ FacIdle /\ ChartInit /\ UnitIdle
NextChart == render_chart
SpecChart == InitChart /\ [][NextChart]_vars

-----------------------------------------------------------------------------
(* Properties *)

\* the elements of a template, as <<slide, position>> pairs
ElementsOf(template) ==
    UNION { {<<i, j>> : j \in 1..Len(template.slides[i].components)} :
            i \in 1..Len(template.slides) }

Before(a, b) == a[1] < b[1] \/ (a[1] = b[1] /\ a[2] < b[2])

\* seq lists exactly the elements of the template, each once, slides in
\* template order and elements in slide order
InTemplateOrder(seq, template) ==
    /\ {seq[k] : k \in 1..Len(seq)} = ElementsOf(template)
    /\ \A k \in 1..Len(seq) - 1 : Before(seq[k], seq[k + 1])

GenerateReturned == result.op = "generate" /\ current_template # NoTemplate

\* C1: during generate() every element of every slide is attempted exactly
\* once, slides in template order and elements in slide order, whatever
\* exceptions single elements raise, and generate() then saves the document
\* and returns its path.
C1_EveryElementAttempted ==
    GenerateReturned =>
        /\ InTemplateOrder(attempted, current_template)
        /\ ~result.raised
        /\ result.path \in DOMAIN disk

\* C2: for a template accepted by the validator with N slides, generate()
\* completes and the presentation has exactly N pages, one per slide in
\* order, on every call.
C2_OnePagePerSlide ==
    GenerateReturned =>
        /\ ~result.raised
        /\ presentation.kind = "Presentation"
        /\ Len(presentation.pages) = Len(current_template.slides)
        /\ result.path \in DOMAIN disk
        /\ Len(disk[result.path]) = Len(current_template.slides)

\* what a job is expected to end as: it fails when its template does not
\* load, its data does not load, or generation raises
TemplateLoads(job) ==
    /\ TemplateFile(job.template).exists
    /\ TemplateFile(job.template).readable
    /\ Validated[job.template].ok
DataLoads(job) == DataFile(job.data).exists /\ DataFile(job.data).readable
GenerationRaises(job) ==
    \E i \in 1..Len(TemplateFile(job.template).value.slides) :
        TemplateFile(job.template).value.slides[i].layout.t = "null"
JobFails(job) == ~TemplateLoads(job) \/ ~DataLoads(job) \/ GenerationRaises(job)

ReportsEveryJob(js, rs) ==
    /\ Len(rs) = Len(js)
    /\ \A i \in 1..Len(js) :
          /\ rs[i].job_index = i - 1
          /\ rs[i].template = js[i].template
          /\ rs[i].data = js[i].data
          /\ JobFails(js[i]) => rs[i].status = "failed" /\ rs[i].error # ""
          /\ ~JobFails(js[i]) => rs[i].status = "success" /\ rs[i].output_path \in DOMAIN b_disk

\* C3: generate_all() runs the jobs in submission order and returns one
\* result per job at the job's position; a job whose template load, data
\* load or generation raises is recorded as failed with its error text and
\* the later jobs are still executed.
C3_OneResultPerJob ==
    [][(\E stamps \in Stamps(Len(jobs), clock) : generate_all(stamps))
          => ReportsEveryJob(jobs, results)']_vars

C3_Witness ==
    /\ Len(results) = 3 /\ Len(jobs) = 3
    /\ results[1].status = "success"
    /\ results[2].status = "failed"
    /\ results[3].status = "success"

\* C4: whenever generate_all has produced a result, get_summary() reports
\* total_jobs = successful + failed = number of results, and success_rate =
\* successful / total_jobs as a percentage with one decimal.
C4_SummaryIsComplete ==
    summary.status = "summary" =>
        /\ summary.total_jobs = summary.successful + summary.failed
        /\ summary.total_jobs = Len(summary.results)
        /\ summary.success_rate = OneDecimalPercent(summary.successful, summary.total_jobs)

\* C5: a load_template call that raises leaves current_template and
\* template_path as they were; and generate() on a generator that holds no
\* template raises and writes no document.
C5_FailedLoadInstallsNothing ==
    [][/\ (result'.op = "load_template" /\ result'.raised) =>
              /\ current_template' = current_template
              /\ template_path' = template_path
       /\ (result'.op = "generate" /\ current_template = NoTemplate) =>
              /\ result'.raised
              /\ disk' = disk]_vars

C5_Witness ==
    /\ result.op = "load_template" /\ result.raised
    /\ current_template = OneSlide /\ template_path = "one.json"

\* the templates the claim calls acceptable
Acceptable(template) ==
    /\ template.kind = "dict"
    /\ template.slidesKind = "list"
    /\ Len(template.slides) > 0
    /\ template.metaKind \in {"absent", "dict"}
    /\ \A i \in 1..Len(template.slides) :
          LET slide == template.slides[i]
          IN  /\ slide.kind = "dict"
              /\ slide.compsKind = "list"
              /\ \A j \in 1..Len(slide.components) :
                    /\ slide.components[j].kind = "dict"
                    /\ slide.components[j].hasType
                    /\ slide.components[j].type \in {"text", "table", "image", "chart", "summary"}

LacksGeometry(template) ==
    \E i \in 1..Len(template.slides) : \E j \in 1..Len(template.slides[i].components) :
        ~template.slides[i].components[j].hasPosition \/ ~template.slides[i].components[j].hasSize

\* C6: _validate_template accepts exactly the mappings with a non-empty
\* 'slides' list, a mapping as 'metadata' when present, mappings with a
\* 'components' list as slides and mappings with one of the five type tags
\* as components; a missing 'position' or 'size' only warns.
C6_AcceptsExactlyWellFormed ==
    v_result # NotValidated =>
        /\ v_result.ok <=> Acceptable(v_template)
        /\ (v_result.ok /\ LacksGeometry(v_template)) => v_result.warnings > 0

C6_Witness ==
    /\ v_result.ok
    /\ LacksGeometry(v_template)
    /\ Len(v_template.slides) = 2

WellFormedConfig(config) ==
    config.kind = "dict" /\ config.hasType /\ config.type \in ValidTypes /\ config.initOk

\* C7: for each of the five type tags, create_component with a well-formed
\* config of that type, with or without a template context, returns an
\* instance of the corresponding element class.
C7_CreatesEveryVariant ==
    (f_result # NotCreated /\ WellFormedConfig(f_config)) =>
        /\ f_result.ok
        /\ f_result.instance.cls = COMPONENT_TYPES[f_config.type]

UnknownOrMissingType(config) ==
    config.kind = "dict" /\ (~config.hasType \/ config.type \notin ValidTypes)

NoInstance(r) == ~r.ok /\ r.instance.cls = ""

\* C8 as claimed: the error raised for an unknown tag and for a missing
\* 'type' key names the offending tag.
C8_ErrorNamesTheTag ==
    (f_result # NotCreated /\ UnknownOrMissingType(f_config)) =>
        /\ NoInstance(f_result)
        /\ f_result.exc = "ValueError"
        /\ f_result.names # NoTag
        /\ f_config.hasType => f_result.names = f_config.type

\* C8: create_component raises a ValueError and returns no instance both
\* when 'type' is outside the five tags and when the key is missing; the
\* error names the offending tag when the tag is a non-empty value, and for
\* a missing key or an empty tag it says that the 'type' key is required.
C8_UnknownTypeRaises ==
    (f_result # NotCreated /\ UnknownOrMissingType(f_config)) =>
        /\ NoInstance(f_result)
        /\ f_result.exc = "ValueError"
        /\ IF f_config.hasType /\ f_config.type # ""
           THEN f_result.names = f_config.type
           ELSE /\ f_result.names = NoTag
                /\ f_result.message = "Component configuration must include 'type' key"

C8_Witness ==
    /\ f_result # NotCreated
    /\ f_config.kind = "dict" /\ f_config.hasType /\ f_config.type = "video"
    /\ f_result.names = "video"

\* C9: whatever the element size, the pixel width and height at which the
\* chart is rasterized are both at most 10000.
C9_RasterWithinLimit ==
    /\ c_raster[1] <= MAX_DIMENSION_PX
    /\ c_raster[2] <= MAX_DIMENSION_PX

C9_Witness ==
    /\ c_outcome = "picture"
    /\ c_size = <<100000, 100000>>
    /\ c_raster = <<2000, 1500>>

\* the datasets the claim lists: None, empty, without any configured column,
\* or with a missing x or y value in every row
NothingToChart(df, src) ==
    \/ df.kind = "None"
    \/ Len(df.rows) = 0
    \/ ~HasColumn(df, src.x_column) /\ ~HasColumn(df, src.y_column)
    \/ \A i \in 1..Len(df.rows) :
          \/ HasColumn(df, src.x_column) /\ df.rows[i][ColIndex(df, src.x_column)] = NaN
          \/ HasColumn(df, src.y_column) /\ df.rows[i][ColIndex(df, src.y_column)] = NaN

\* the steps of generating the chart: plotting and rasterizing
GenerationSteps == {"plot", "tempfile", "savefig", "close"}

C10_NoTempFileLeft ==
    c_outcome # Pending => c_temp = {}

\* the last call was generate() and it ended in Saved: the document is
\* written and its path returned
Saved ==
    /\ result.op = "generate" /\ ~result.raised
    /\ result.path \in DOMAIN disk
    /\ disk[result.path] = presentation.pages

\* the last call was generate() and it ended in Failed: an error is raised,
\* no path returned
Failed == result.op = "generate" /\ result.raised /\ result.path = NoOutputPath

\* the last call was generate() and it refused to start
Refused == Failed /\ result.exc = "ValueError" /\ attempted = <<>>

Oversized ==
    /\ c_raster # NoRaster
    /\ Pixels(c_size[1], 100) > MAX_DIMENSION_PX \/ Pixels(c_size[2], 100) > MAX_DIMENSION_PX

\* the raster has the proportions of the element, to within one pixel
KeepsAspect ==
    /\ c_raster[1] * c_size[2] - c_raster[2] * c_size[1] <= Larger(c_size[1], c_size[2])
    /\ c_raster[2] * c_size[1] - c_raster[1] * c_size[2] <= Larger(c_size[1], c_size[2])

\* C19 as stated: an oversized request is made to fit by lowering the dpi,
\* the figure keeping the element's width and height in inches, so that the
\* raster keeps the element's aspect ratio.
C19_FitsByLoweringDpi ==
    Oversized =>
        /\ FigWidth(c_size[1]) = c_size[1] /\ FigHeight(c_size[2]) = c_size[2]
        /\ SaveDpi(FigWidth(c_size[1]), FigHeight(c_size[2])) < 100
        /\ KeepsAspect

\* C19 (amended): an oversized request is made to fit by clamping the
\* figure, a width above 20 inches to 20 inches (below 1 inch: 9 inches) and
\* a height above 15 inches to 15 inches (below 1 inch: 5 inches), at an
\* unchanged 100 dpi; the whole figure is rasterized at that size.
C19_FitsByClampingInches ==
    Oversized =>
        /\ c_raster[1] = (IF c_size[1] > 200 THEN 2000
                          ELSE IF c_size[1] < 10 THEN 900 ELSE c_size[1] * 10)
        /\ c_raster[2] = (IF c_size[2] > 150 THEN 1500
                          ELSE IF c_size[2] < 10 THEN 500 ELSE c_size[2] * 10)
        /\ SaveDpi(FigWidth(c_size[1]), FigHeight(c_size[2])) = 100

C19_Witness ==
    /\ c_outcome = "picture"
    /\ c_size = <<90, 100000>>
    /\ c_raster = <<900, 1500>>

\* C20: whatever pixel size the saved file has, once the verification pass
\* has run the file is at most 10000 pixels wide and at most 10000 high.
C20_FileWithinLimitAfterVerification ==
    (c_file # NoRaster /\ c_env.fails # "verify")
        => c_file[1] <= MAX_DIMENSION_PX /\ c_file[2] <= MAX_DIMENSION_PX

\* what the pass does ensure: the width is within the limit
C20_WidthWithinLimit ==
    (c_file # NoRaster /\ c_env.fails # "verify") => c_file[1] <= MAX_DIMENSION_PX

-----------------------------------------------------------------------------
(* DataMapper properties (SpecMapper)                                      *)

\* C12: no call of get_data_for_component and no later change of a dataset
\* it returned alters the dataset or the metadata the mapper holds.
C12_HeldDatasetNeverChanges ==
    [][m_heap'[HeldRef] = m_heap[HeldRef] /\ m_metadata' = m_metadata]_vars

\* the call itself leaves the held dataset alone
C12_CallLeavesHeld ==
    [][get_data_for_component => m_heap'[HeldRef] = m_heap[HeldRef]]_vars

\* the call under observation has returned a derived dataset
TabularCall == m_ret.kind = "dataset" /\ m_ret.ref = FreshRef /\ ~m_ret.touched

\* the value of column col in row i of df, a missing value counting as the
\* smallest
ValueAt(df, col, i) == df.rows[i][ColIndex(df, col)]

\* the selections of m rows of df, as sequences of distinct row numbers
Selections(df, m) ==
    {idx \in [1..m -> 1..Len(df.rows)] : \A i, j \in 1..m : i # j => idx[i] # idx[j]}

\* idx selects rows with the largest values of col, largest first
LargestFirst(df, col, idx) ==
    /\ \A i \in 1..(Len(idx) - 1) : ValueAt(df, col, idx[i]) >= ValueAt(df, col, idx[i + 1])
    /\ \A i \in 1..Len(idx), j \in 1..Len(df.rows) :
          (\A h \in 1..Len(idx) : idx[h] # j) => ValueAt(df, col, idx[i]) >= ValueAt(df, col, j)

Pick(df, idx) == [df EXCEPT !.rows = [i \in 1..Len(idx) |-> df.rows[idx[i]]]]

\* the configured shape (projection, renaming) of the rows of held that idx selects
Shaped(held, src, idx) == Rename(FilterColumns(Pick(held, idx), src), src.column_mapping)

\* the returned dataset ret is the k rows of held with the largest values of
\* col, largest first
IsTopK(held, src, col, k, ret) ==
    /\ Len(ret.rows) = Smaller(k, Len(held.rows))
    /\ Len(held.rows) > 0 =>
          \E idx \in Selections(held, Smaller(k, Len(held.rows))) :
              /\ LargestFirst(held, col, idx)
              /\ ret = Shaped(held, src, idx)

\* C13: with sort_by a column of the loaded dataset, ascending = false and
\* top_n = k > 0, a table, chart or summary element is handed exactly
\* min(k, row_count) rows: the rows with the k largest values of that column,
\* largest first.
C13_TopKLargestDescending ==
    (/\ TabularCall
     /\ m_heap[HeldRef].kind = "frame"
     /\ m_config.source.sort_by # "" /\ HasColumn(m_heap[HeldRef], m_config.source.sort_by)
     /\ m_config.source.ascending = "false"
     /\ m_config.source.top_n > 0)
        => IsTopK(m_heap[HeldRef], m_config.source, m_config.source.sort_by,
                  m_config.source.top_n, m_heap[FreshRef])

\* the same holds whenever the sort column is still a column after the
\* projection and the renaming
C13_TopKWhenColumnKept ==
    (/\ TabularCall
     /\ m_heap[HeldRef].kind = "frame"
     /\ m_config.source.sort_by # "" /\ HasColumn(m_heap[HeldRef], m_config.source.sort_by)
     /\ HasColumn(Rename(FilterColumns(m_heap[HeldRef], m_config.source),
                         m_config.source.column_mapping), m_config.source.sort_by)
     /\ m_config.source.ascending = "false"
     /\ m_config.source.top_n > 0)
        => IsTopK(m_heap[HeldRef], m_config.source, m_config.source.sort_by,
                  m_config.source.top_n, m_heap[FreshRef])

ColumnSet(df) == {df.columns[j] : j \in 1..Len(df.columns)}
Configured(src) == {src.columns[j] : j \in 1..Len(src.columns)}

\* a and b have the same rows over the columns cols
Agree(a, b, cols) ==
    /\ Len(a.rows) = Len(b.rows)
    /\ \A i \in 1..Len(a.rows) : \A col \in cols : ValueAt(a, col, i) = ValueAt(b, col, i)

\* equal datasets: the same columns with the same rows
SameData(a, b) == ColumnSet(a) = ColumnSet(b) /\ Agree(a, b, ColumnSet(a))

\* the call under observation only projects: columns are configured, nothing
\* is renamed, sorted or cut
ProjectionCall ==
    /\ TabularCall
    /\ m_heap[HeldRef].kind = "frame"
    /\ Len(m_config.source.columns) > 0
    /\ m_config.source.column_mapping = NoMapping
    /\ m_config.source.sort_by = ""
    /\ m_config.source.top_n = 0

-----------------------------------------------------------------------------
(* TextComponent properties (SpecText)                                     *)

\* content with every {key} whose key is in d replaced by str(d[key]), all
\* at once, and every other character kept
RECURSIVE FillFrom(_, _, _)
FillFrom(content, d, i) ==
    IF i > Len(content) THEN <<>>
    ELSE IF /\ i + 2 <= Len(content)
            /\ content[i] = "{" /\ content[i + 2] = "}"
            /\ content[i + 1] \in ItemKeys(d)
    THEN Str(ValueOf(d, content[i + 1])) \o FillFrom(content, d, i + 3)
    ELSE <<content[i]>> \o FillFrom(content, d, i + 1)

\* C15: the rendered text is the content with every {key} of the merged
\* variable dictionary replaced by the string of its value, every other
\* {key} being left as it is.
C15_RendersFilledContent ==
    t_text.done => t_text.text = FillFrom(t_comp.content, AllVars(t_comp, t_data), 1)

\* the same when nothing nests: no value holds a brace and the content holds
\* no doubled brace
BraceFree(d) == \A i \in 1..Len(d) : \A j \in 1..Len(Str(d[i].value)) :
                    Str(d[i].value)[j] \notin {"{", "}"}

NoDoubledBrace(content) ==
    \A i \in 1..(Len(content) - 1) :
        ~(content[i] = "{" /\ content[i + 1] = "{") /\ ~(content[i] = "}" /\ content[i + 1] = "}")

C15_FilledWhenNothingNests ==
    (t_text.done /\ BraceFree(AllVars(t_comp, t_data)) /\ NoDoubledBrace(t_comp.content))
        => t_text.text = FillFrom(t_comp.content, AllVars(t_comp, t_data), 1)

\* the items of d whose key is not in keys
Unless(d, keys) == SelectSeq(d, LAMBDA item : item.key \notin keys)

\* every key of the four sources with its value from the highest-priority
\* source that defines it: run-time variables, then the element's
\* variables, then the metadata, then the date and time defaults
ByPriority(metadata, config_vars, custom) ==
    custom
    \o Unless(config_vars, ItemKeys(custom))
    \o Unless(metadata, ItemKeys(custom) \cup ItemKeys(config_vars))
    \o Unless(Defaults, ItemKeys(custom) \cup ItemKeys(config_vars) \cup ItemKeys(metadata))

\* nothing nests in the element in a generator
PlainElement ==
    /\ NoDoubledBrace(t_comp.content)
    /\ BraceFree(ByPriority(t_metadata, t_comp.variables, t_custom))

\* C16: the text element that _render_component has handled during
\* generate() shows, for every key of its content, the value of the
\* highest-priority source that defines the key: date and time defaults <
\* dataset metadata < variables of the element config < run-time variables.
C16_HighestPrioritySourceShown ==
    (t_text.by = "generate" /\ PlainElement)
        => /\ t_text.done
           /\ t_text.text =
                FillFrom(t_comp.content, ByPriority(t_metadata, t_comp.variables, t_custom), 1)

\* the merge itself has that priority: an element constructed directly and
\* rendered with the dictionary of _get_text_data would show those values
C16_MergeHasPriority ==
    PlainElement
        => SubstituteVariables(t_comp,
               DictData(GetTextData(t_metadata, t_comp.variables, t_custom)))
           = FillFrom(t_comp.content, ByPriority(t_metadata, t_comp.variables, t_custom), 1)

-----------------------------------------------------------------------------
(* TableComponent properties (SpecTable)                                   *)

\* row a comes no later than row b when sorted on column k: missing values
\* last, otherwise by value in the given direction
NoLater(a, b, k, ascending) ==
    IF b[k] = NaN THEN TRUE
    ELSE IF a[k] = NaN THEN FALSE
    ELSE IF ascending THEN a[k] <= b[k] ELSE a[k] >= b[k]

\* idx lists the rows of df sorted on col
InOrder(df, col, ascending, idx) ==
    \A i \in 1..(Len(idx) - 1) :
        NoLater(df.rows[idx[i]], df.rows[idx[i + 1]], ColIndex(df, col), ascending)

\* the configured columns and names of the rows of df that idx selects
TableShaped(df, src, idx) == Rename(TableColumns(Pick(df, idx), src), src.column_mapping)

\* C17: a table drawn for a config with sort_by (a column of the data) and a
\* direction shows the rows of the data in the order sorted on that column
\* in that direction, ascending = false meaning largest first.
C17_RowsInConfiguredOrder ==
    (/\ tb_shape.kind = "table"
     /\ tb_source.sort_by # "" /\ HasColumn(tb_data, tb_source.sort_by)
     /\ tb_source.ascending # "absent")
        => \E idx \in Selections(tb_data, Len(tb_data.rows)) :
              /\ InOrder(tb_data, tb_source.sort_by, tb_source.ascending = "true", idx)
              /\ tb_shape.rows = TableShaped(tb_data, tb_source, idx).rows

\* the same holds whenever the sort column is a column of the table
C17_InOrderWhenColumnShown ==
    (/\ tb_shape.kind = "table"
     /\ tb_source.sort_by # "" /\ HasColumn(tb_data, tb_source.sort_by)
     /\ \E j \in 1..Len(tb_shape.header) : tb_shape.header[j] = tb_source.sort_by
     /\ tb_source.ascending # "absent")
        => \E idx \in Selections(tb_data, Len(tb_data.rows)) :
              /\ InOrder(tb_data, tb_source.sort_by, tb_source.ascending = "true", idx)
              /\ tb_shape.rows = TableShaped(tb_data, tb_source, idx).rows

-----------------------------------------------------------------------------
(* Color properties (SpecColor)                                            *)

\* the first applicable of: the explicit non-empty list, for 'brand' the
\* palette of the template's color scheme, the backend's color cycle, the
\* fallback palette
FirstApplicable(style, template, cycle) ==
    IF style.kind = "list" /\ style.list # <<>> THEN style.list
    ELSE IF style.kind = "str" /\ style.name = "brand" THEN GetTemplateColorList(template)
    ELSE IF ~cycle.raises /\ CycleColors(cycle.entries) # <<>> THEN CycleColors(cycle.entries)
    ELSE FallbackColors

\* C21: the resolved color list is the first applicable of the explicit
\* list, the brand palette of the template's color scheme, the backend's
\* color cycle and the fallback palette, and it is never empty.
C21_FirstApplicableColors ==
    k_colors.done =>
        /\ k_colors.list = FirstApplicable(k_style, k_template, k_cycle)
        /\ Len(k_colors.list) > 0

\* the resolved list is never empty
C21_NeverEmpty == k_colors.done => Len(k_colors.list) > 0

\* but for 'brand' the order of resolution is as stated
C21_FirstApplicableUnlessBrand ==
    (k_colors.done /\ ~(k_style.kind = "str" /\ k_style.name = "brand"))
        => k_colors.list = FirstApplicable(k_style, k_template, k_cycle)

-----------------------------------------------------------------------------
(* Properties of an element and its data (SpecPipe)                        *)

\* the rows that idx selects of df, in that order
FirstOf(df, idx, n) == Pick(df, SubSeq(idx, 1, n)).rows

\* shown holds the rows of input without missing x or y values, sorted on
\* col in the given direction, cut to the first top_n of them when top_n > 0
SortedAndCut(input, src, col, ascending, shown) ==
    LET clean == DropMissing(input, ChartOf(src))
        n == IF src.top_n > 0 THEN Smaller(src.top_n, Len(clean.rows)) ELSE Len(clean.rows)
    IN  \E idx \in Selections(clean, Len(clean.rows)) :
            /\ InOrder(clean, col, ascending, idx)
            /\ shown.rows = FirstOf(clean, idx, n)

ChartSorted ==
    /\ p_run.done /\ p_config.type = "chart" /\ p_run.shown.kind = "frame"
    /\ p_config.source.sort_by # "" /\ HasColumn(p_run.input, p_config.source.sort_by)

\* C22: a chart with sort_by plots its rows ordered by that column,
\* descending unless the data source configures ascending = true and then
\* ascending; with top_n = N the first N rows of that order are plotted.
C22_PlottedInConfiguredOrder ==
    ChartSorted =>
        SortedAndCut(p_run.input, p_config.source, p_config.source.sort_by,
                     p_config.source.ascending = "true", p_run.shown)

\* the plotted rows are in descending order whatever is configured
C22_PlottedDescending ==
    ChartSorted =>
        SortedAndCut(p_run.input, p_config.source, p_config.source.sort_by,
                     FALSE, p_run.shown)

TablePiped == p_run.done /\ p_config.type = "table" /\ ~p_direct

\* C30: for a table element given the mapper's output for its config, the
\* element's own column filter, rename and sort change nothing: the frame
\* it draws has the columns and the row order of the mapper's output, for
\* every combination of columns, column_mapping, sort_by, ascending (given
\* or absent) and top_n.
C30_ElementKeepsMapperOutput ==
    TablePiped =>
        /\ p_run.shown.columns = p_run.input.columns
        /\ p_run.shown.rows = p_run.input.rows

\* it holds when the direction is given, no column is renamed and some
\* configured column is a column of the dataset
C30_KeepsWhenExplicit ==
    (/\ TablePiped
     /\ p_config.source.ascending # "absent"
     /\ p_config.source.column_mapping = NoMapping
     /\ (p_config.source.columns = <<>>
            \/ AvailableColumns(p_data, p_config.source.columns) # <<>>))
        => /\ p_run.shown.columns = p_run.input.columns
           /\ p_run.shown.rows = p_run.input.rows

-----------------------------------------------------------------------------
(* Image properties (SpecImage)                                            *)

\* the first existing of the logo setting under the project root, its
\* templates subfolder and its assets subfolder (an absolute setting: the
\* file itself), or NonePath when it exists nowhere
FirstExisting(logo_path, fs) ==
    IF logo_path.dir = "abs"
    THEN (IF logo_path \in fs.paths THEN logo_path ELSE NonePath)
    ELSE IF At("cwd", logo_path.name) \in fs.paths THEN At("cwd", logo_path.name)
    ELSE IF At("templates", logo_path.name) \in fs.paths THEN At("templates", logo_path.name)
    ELSE IF At("assets", logo_path.name) \in fs.paths THEN At("assets", logo_path.name)
    ELSE NonePath

\* the source of highest priority: a path in the data, then for a
\* template-logo element the logo of the template where it exists, then the
\* element's own path
BySourcePriority(comp, template, input, fs) ==
    IF DataGiven(input) /\ input.logo_path # AbsentPath THEN input.logo_path
    ELSE IF DataGiven(input) /\ input.image_path # AbsentPath THEN input.image_path
    ELSE IF /\ comp.image_type = "template_logo"
            /\ template.loaded /\ PathGiven(template.logo_path)
            /\ FirstExisting(template.logo_path, fs) # NonePath
    THEN FirstExisting(template.logo_path, fs)
    ELSE comp.image_path

\* the data names no logo of its own for the template-logo case
NoLogoHanded == i_data.template_logo = AbsentPath

\* C23: the image shown is taken from the path in the render-time data,
\* else for a template-logo element from the template's logo setting where
\* it first exists (project root, templates subfolder, assets subfolder),
\* else from the element's own static path, to which a logo that exists
\* nowhere falls through.
C23_SourceByPriority ==
    (i_path.done /\ NoLogoHanded /\ i_comp.image_type # "template_embedded_logo")
        => i_path.path = BySourcePriority(i_comp, i_template, i_data, i_files)

\* the element given the document's template would still not fall through
\* to its own path for a relative logo that exists nowhere
C23_MissingLogoFallsThrough ==
    (i_path.done /\ NoLogoHanded /\ i_comp.image_type # "template_embedded_logo")
        => GetImagePath([i_comp EXCEPT !.template = i_template], i_data, i_files)
             = BySourcePriority(i_comp, i_template, i_data, i_files)

\* a path in the data comes first, and an element that is no template logo
\* shows its own path
C23_DataThenOwnPath ==
    (i_path.done /\ NoLogoHanded)
        => i_path.path = BySourcePriority(i_comp, NoSettings, i_data, i_files)

-----------------------------------------------------------------------------
(* Summary properties (SpecSummary)                                        *)

\* the first n items of a list
FirstItems(items, n) == SubSeq(items, 1, Smaller(n, Len(items)))

\* every item of a mapping as 'key: value'
EachValue(raw) == [j \in 1..Len(raw.columns) |-> Insight("value", raw.columns[j], raw.rows[1][j])]

\* the sum and the mean of every column of cols that df has, from position
\* j on
RECURSIVE SumAndMeanOfEach(_, _, _)
SumAndMeanOfEach(df, cols, j) ==
    IF j > Len(cols) THEN <<>>
    ELSE IF ~HasColumn(df, cols[j]) THEN SumAndMeanOfEach(df, cols, j + 1)
    ELSE <<Insight("Total", cols[j], SumOf(Present(df, cols[j]))),
           Insight("Average", cols[j], MeanOf(Present(df, cols[j])))>>
         \o SumAndMeanOfEach(df, cols, j + 1)

\* C24: a key_metrics summary given a flat mapping of metrics shows its
\* items as 'key: value'; given a table it shows the sum and the mean of
\* each configured metric column that the table has (in both cases as many
\* items as max_items admits).
C24_KeyMetricsItems ==
    s_insights.done =>
        /\ s_data.kind = "dict"
              => s_insights.items = FirstItems(EachValue(s_data), s_comp.max_items)
        /\ (s_data.kind = "frame" /\ ~Empty(s_data) /\ s_comp.metric_columns # <<>>)
              => s_insights.items
                   = FirstItems(SumAndMeanOfEach(s_data, s_comp.metric_columns, 1), s_comp.max_items)

\* of a table, the sum and the mean of the first two configured columns
\* that exist are shown
C24_FirstTwoColumns ==
    (s_insights.done /\ s_data.kind = "frame" /\ ~Empty(s_data) /\ s_comp.metric_columns # <<>>)
        => s_insights.items
             = FirstItems(FirstItems(SumAndMeanOfEach(s_data, s_comp.metric_columns, 1), 4),
                          s_comp.max_items)

\* a mapping is treated as a table of one row
C24_MappingAsTable ==
    (s_insights.done /\ s_data.kind = "dict")
        => s_insights.items = RenderSummary(s_comp, [s_data EXCEPT !.kind = "frame"])

\* _generate_key_metrics itself passes the first three items of a mapping
\* through when it is called without a DataFrame
C24_PassThroughWithoutFrame ==
    (s_insights.done /\ s_data.kind = "dict")
        => GenerateKeyMetrics(s_comp, NoFrame, s_data) = FirstItems(EachValue(s_data), 3)

-----------------------------------------------------------------------------
(* reset (Spec)                                                            *)

\* the last call was reset()
JustReset == result.op = "reset"

\* C25: reset() returns the generator to its initial state, with no
\* presentation, no custom variables, no dataset and no template loaded, so
\* that a generate() right after reset() is refused for want of a template.
C25_GenerateAfterResetRefused ==
    [][(JustReset /\ result'.op = "generate")
          => /\ current_template = NoTemplate
             /\ result'.raised /\ result'.exc = "ValueError" /\ result'.path = NoOutputPath]_vars

\* reset() leaves no presentation, no custom variables and no dataset
C25_ResetClearsAllButTemplate ==
    JustReset =>
        /\ presentation = NoPresentation
        /\ custom_variables = NoVariables
        /\ data = NoData

\* and it leaves the template as it was
C25_ResetKeepsTemplate ==
    [][result'.op = "reset"
          => current_template' = current_template /\ template_path' = template_path]_vars

-----------------------------------------------------------------------------
(* Templates built in memory (SpecBuild)                                   *)

\* C26: whatever load_template, create_empty_template, add_slide and
\* validate_current_template calls came before, generate() produces a
\* document only from a template that has at least one slide and passes
\* structural validation; any other template is refused.
C26_GeneratesOnlyValidTemplates ==
    Saved => /\ Len(current_template.slides) > 0
             /\ ValidateTemplate(current_template).ok

\* generate() refuses exactly when no template is installed
C26_RefusesOnlyWithoutTemplate ==
    result.op = "generate" => (Refused <=> current_template = NoTemplate)

-----------------------------------------------------------------------------
(* Elements created by generate() (Spec)                                   *)

\* the element config at position <<slide, component>> of the template
ElementAt(template, at) == template.slides[at[1]].components[at[2]]

\* generate() has handed elements to _render_component
Rendering == result.op = "generate" /\ attempted # <<>>

\* C27: during generate(), every element instance is created with the
\* loaded template as its template context.
C27_ElementsGetLoadedTemplate ==
    Rendering =>
        \A k \in 1..Len(attempted) :
            /\ CreateForRender(ElementAt(current_template, attempted[k])).ok
            /\ CreateForRender(ElementAt(current_template, attempted[k])).instance.template
                 = current_template

\* no element is given the loaded template, and none is created
C27_ElementsGetNoTemplate ==
    Rendering =>
        \A k \in 1..Len(attempted) :
            /\ ~CreateForRender(ElementAt(current_template, attempted[k])).ok
            /\ CreateForRender(ElementAt(current_template, attempted[k])).instance.template
                 = NoTemplate

-----------------------------------------------------------------------------
(* Output paths of a batch (SpecBatch)                                     *)

\* C28: no two 'success' results of one generate_all() run carry the same
\* output_path when the jobs supply no output path, also when the jobs use
\* the same template within the same clock second.
C28_DistinctOutputPaths ==
    \A i, j \in 1..Len(results) :
        (i # j /\ results[i].status = "success" /\ results[j].status = "success")
            => results[i].output_path # results[j].output_path

\* the paths of two successful jobs differ when their clock seconds do
C28_DistinctAcrossSeconds ==
    \A i, j \in 1..Len(results) :
        (/\ results[i].status = "success" /\ results[j].status = "success"
         /\ results[i].output_path.stamp # results[j].output_path.stamp)
            => results[i].output_path # results[j].output_path

-----------------------------------------------------------------------------
(* Mapper session properties (SpecSession)                                 *)

\* the metadata describes the dataset held, and there is none without one
MetadataAgrees ==
    IF d_data.kind = "None" THEN ~d_metadata.present
    ELSE /\ d_metadata.present
         /\ d_metadata.row_count = Len(d_data.rows)
         /\ d_metadata.column_count = Len(d_data.columns)
         /\ d_metadata.columns = d_data.columns

\* C29: after any sequence of load_data, apply_column_mapping, filter_data,
\* aggregate_data and reset, the metadata agrees with the dataset held in
\* row_count, column_count and columns, and there is no such metadata when
\* no dataset is held.
C29_MetadataAgreesWithData == MetadataAgrees

\* it agrees after every load_data and apply_column_mapping that did not
\* raise, and after every reset
C29_AgreesAfterLoadRenameReset ==
    (\/ d_result.op \in {"init", "reset"}
     \/ d_result.op \in {"load_data", "apply_column_mapping"} /\ ~d_result.raised)
        => MetadataAgrees

====
